---------------------------- MODULE Spec2Model ----------------------------
(***************************************************************************)
(* A state-machine model of hotspot's G1 remembered-set engine             *)
(* (gc_implementation/g1/g1RemSet.cpp): concurrent card refinement racing  *)
(* with mutator write barriers and region recycling, and the refinement    *)
(* and remembered-set scan done by the GC workers inside an evacuation     *)
(* pause.                                                                  *)
(*                                                                         *)
(* The heap is NRegions regions of CardsPerRegion cards of CardWords words.*)
(* A word either holds no reference or a reference to (an object of) a     *)
(* region.  Addresses, cards and regions are numbered from 0.              *)
(***************************************************************************)
EXTENDS Integers, Sequences, FiniteSets, TLC

\* ------------------------------------------------------------ geometry
NRegions == 3
CardsPerRegion == 2
\* CardTableModRefBS::card_size_in_words, scaled down
CardWords == 2
RegionWords == CardsPerRegion * CardWords

\* ------------------------------------------------------------- bounds
NRefiners == 2
NMutators == 1
NWorkers == 2
MaxStores == 2
MaxAllocs == 1
MaxFrees == 1
MaxPauses == 1
HotCacheSize == 1
\* enqueues counted per refinement attempt; the count stops there
MaxEnqCount == 3
MaxVerifies == 2

Regions == 0 .. (NRegions - 1)
Cards == 0 .. (NRegions * CardsPerRegion - 1)
Addrs == 0 .. (NRegions * RegionWords - 1)
Refiners == 1 .. NRefiners
Mutators == 1 .. NMutators
Workers == 1 .. NWorkers

NoRef == -1
NoCard == -1
\* a NULL HeapWord*
NoAddr == -1
\* HeapWordSize, the bytes of a heap word
HeapWordSize == 8

\* card table byte values
clean_card_val == "CLEAN"
dirty_card_val == "DIRTY"
g1_young_card_val == "YOUNG"
claimed_card_val == "CLAIMED"

VARIABLES
  phase,             \* "conc": mutators and refinement threads run; "pause": at a safepoint
  rtype,             \* region -> "FREE" | "YOUNG" | "OLD" | "HUM"
  top,               \* region -> allocation frontier (an address)
  scan_top,          \* region -> frontier that is safe to scan inside a pause
  published,         \* region -> its objects' headers are initialised (parsable)
  in_cset,           \* region -> in the collection set of the current pause
  slot,              \* address -> NoRef or the region the stored reference points into
  card,              \* the card table: card -> byte value
  rs,                \* region -> its remembered set (a set of cards)
  dcq,               \* the mutator dirty-card queue set: card -> number of entries
  into_cset_dcq,     \* the into-CSet queue set: card -> number of entries
  hcc,               \* the hot card cache: a sequence of cards
  use_cache,         \* G1HotCardCache::use_cache()
  conc_refine_cards, \* G1RemSet::_conc_refine_cards
  mut,               \* mutator -> [pc, addr]
  rf,                \* refinement thread -> its position in refine_card_concurrently
  gcw,               \* GC worker -> its position in oops_into_collection_set_do
  ps,                \* state shared by the workers of a pause (see InitPs)
  env,               \* the environment's counters (stores, allocs, frees, pauses) and the
                     \* history the properties refer to (see Init)
  rb                 \* the remembered-set rebuild after marking (see IdleRb)

vars == << phase, rtype, top, scan_top, published, in_cset, slot, card, rs, dcq,
           into_cset_dcq, hcc, use_cache, conc_refine_cards, mut, rf, gcw, ps, env, rb >>

heapVars == << rtype, top, scan_top, published, in_cset >>
queueVars == << dcq, into_cset_dcq, hcc, use_cache >>

\* ------------------------------------------------------------ helpers
bottom(r) == r * RegionWords
end_of(r) == bottom(r) + RegionWords
\* CardTableModRefBS::addr_for(card_ptr)
addr_for(c) == c * CardWords
\* CardTableModRefBS::index_for(addr)
index_for(a) == a \div CardWords
\* G1CollectedHeap::heap_region_containing(addr)
heap_region_containing(a) == a \div RegionWords
\* HeapRegion::is_old_or_humongous()
is_old_or_humongous(r) == rtype[r] \in {"OLD", "HUM"}

Min(a, b) == IF a <= b THEN a ELSE b

\* dirty_region with the end of the card taken one word short
dirty_region_short(c, scan_limit) ==
  { a \in Addrs : addr_for(c) <= a /\ a < Min(scan_limit, addr_for(c) + CardWords - 1) }

\* MemRegion(start, MIN2(scan_limit, end)) of a card, as a set of addresses
dirty_region(c, scan_limit) ==
  { a \in Addrs : addr_for(c) <= a /\ a < Min(scan_limit, addr_for(c) + CardWords) }

NoEntries == [c \in Cards |-> 0]
Enqueue(q, c) == [q EXCEPT ![c] = @ + 1]
Dequeue(q, c) == [q EXCEPT ![c] = @ - 1]

IdleMut == [pc |-> "idle", addr |-> NoRef]
IdleRf == [pc |-> "idle", card_ptr |-> NoCard, orig |-> NoCard, scan_limit |-> 0,
           sb |-> FALSE, sawDirty |-> FALSE, cleans |-> 0, fenced |-> FALSE,
           found |-> {}, enq |-> 0, enq_since |-> 0, out |-> "none", again |-> FALSE,
           quiet |-> FALSE, rec |-> FALSE, dirty_at_clean |-> TRUE]
IdleGcw == [pc |-> "idle", card_ptr |-> NoCard, scan_limit |-> 0, sb |-> FALSE,
            fenced |-> FALSE, has_refs |-> FALSE, out |-> "none",
            try_claimed |-> FALSE, visited |-> 0, current_card |-> 0,
            jump_to_card |-> 0, card_index |-> NoCard, cards_done |-> 0]

\* iter_state, iter_claimed: the per-remembered-set iteration state (claim_iter,
\*   set_iter_complete, iter_claimed_next); cset_rs_update_cl: the workers whose slot
\*   of _cset_rs_update_cl is set; pushed: the <<card, target region>> references
\*   handed to the evacuation closure; scans: card -> times scanned by scanCard;
\*   code_roots: region -> times its strong code roots were scanned;
\*   dirty_cards_region_list: the regions given to push_dirty_cards_region;
\*   claimants: region -> the workers whose claim_iter() succeeded;
\*   handled: region -> index of its remembered-set iteration -> the workers
\*   that took that index for themselves, in order; scan_log: the <<card, worker, try_claimed>> of
\*   every scanCard that scanned
InitPs == [iter_state |-> [r \in Regions |-> "Unclaimed"],
           iter_claimed |-> [r \in Regions |-> 0],
           cset_rs_update_cl |-> {},
           pushed |-> {},
           scans |-> [c \in Cards |-> 0],
           code_roots |-> [r \in Regions |-> 0],
           dirty_cards_region_list |-> {},
           claimants |-> [r \in Regions |-> {}],
           handled |-> [r \in Regions |-> [i \in 0 .. (NRegions * CardsPerRegion - 1) |-> << >>]],
           scan_log |-> {},
           \* the cards refine_card_during_gc has scanned
           rdg_scans |-> {},
           \* at the start of the pause every DIRTY card was in a completed buffer
           \* of the dirty-card queue set or in the hot card cache
           all_dirty_logged |-> TRUE,
           \* set by cleanup_after_oops_into_collection_set_do: _total_cards_scanned,
           \* and the card table and the two queue sets as it found them
           total_cards_scanned |-> 0,
           card_before |-> [c \in Cards |-> clean_card_val],
           into_cset_before |-> NoEntries,
           dcq_before |-> NoEntries]

\* The remembered-set rebuild of G1RebuildRemSetTask, idle.
\*   size: address -> the size in words of the object that starts there (0: none
\*   starts there); objArrays: the starts of the object arrays; bitmap: the
\*   addresses marked in the next mark bitmap; end: HeapRegion::end() per
\*   region; humongous_start_region: per region; next_top_at_mark_start,
\*   top_at_rebuild_start (NoAddr: NULL), next_marked_bytes: per region;
\*   todo: the regions the iteration still hands to doHeapRegion; hr, cur,
\*   top_at_mark_start, total_marked_bytes: the region and the locals of the
\*   doHeapRegion in progress.
\*   History: counted: object start -> the words added to marked_words for it;
\*   fields: address -> the times the closure was applied to that word;
\*   iterated: the <<hr, mr.start, mr.end>> of every oop_iterate of a humongous
\*   object; result, total: per region, how doHeapRegion ended and its
\*   total_marked_bytes.
IdleRb == [pc |-> "off", todo |-> << >>, hr |-> 0, cur |-> 0, top_at_mark_start |-> 0,
           total_marked_bytes |-> 0, G1RebuildRemSetChunkSize |-> HeapWordSize,
           has_aborted |-> FALSE,
           size |-> [a \in Addrs |-> 0], objArrays |-> {}, bitmap |-> {},
           end |-> [r \in Regions |-> end_of(r)],
           humongous_start_region |-> [r \in Regions |-> r],
           next_top_at_mark_start |-> [r \in Regions |-> bottom(r)],
           top_at_rebuild_start |-> [r \in Regions |-> NoAddr],
           next_marked_bytes |-> [r \in Regions |-> 0],
           counted |-> [a \in Addrs |-> 0], fields |-> [a \in Addrs |-> 0],
           iterated |-> << >>,
           result |-> [r \in Regions |-> "none"], total |-> [r \in Regions |-> 0]]

ThreadsQuiescent ==
  /\ \A m \in Mutators : mut[m].pc = "idle"
  /\ \A t \in Refiners : rf[t].pc = "idle"

\* --------------------------------------------------------------- Init
\* st: the stores already counted against MaxStores
InitStores(st) ==
  /\ phase = "conc"
  /\ rtype = [r \in Regions |-> IF r = NRegions - 1 THEN "FREE" ELSE "OLD"]
  /\ top = [r \in Regions |-> IF r = NRegions - 1 THEN bottom(r) ELSE end_of(r) - 1]
  /\ scan_top = top
  /\ published = [r \in Regions |-> TRUE]
  /\ in_cset = [r \in Regions |-> FALSE]
  /\ slot = [a \in Addrs |-> NoRef]
  /\ card = [c \in Cards |-> clean_card_val]
  /\ rs = [r \in Regions |-> {}]
  /\ dcq = NoEntries
  /\ into_cset_dcq = NoEntries
  /\ hcc = << >>
  /\ use_cache = TRUE
  /\ conc_refine_cards = 0
  /\ mut = [m \in Mutators |-> IdleMut]
  /\ rf = [t \in Refiners |-> IdleRf]
  /\ gcw = [w \in Workers |-> IdleGcw]
  /\ ps = InitPs
  /\ rb = IdleRb
  /\ env = [stores |-> st, allocs |-> 0, frees |-> 0, pauses |-> 0,
            \* the flag G1RSetScanBlockSize
            G1RSetScanBlockSize |-> 1,
            \* regions freed or allocated since the start
            recycled |-> {},
            \* cards the write barrier stored DIRTY to
            barrier_cards |-> {},
            \* a mutator stored into a card while a refinement of it was in progress
            raced |-> FALSE,
            \* card -> the refinement threads that cleaned it since it was last dirtied
            cleaners |-> [c \in Cards |-> {}],
            \* card -> a call of refine_card_concurrently for it has run and returned
            \* with no dirtying of the card, and the card was not dirtied since
            returned |-> [c \in Cards |-> FALSE],
            \* _g1->evacuation_failed() as the last cleanup read it, and the cards
            \* that cleanup then merged into the dirty-card queue set
            evacuation_failed |-> FALSE,
            merged |-> {},
            \* the cards that a failed scan redirtied and re-enqueued and that no
            \* later call has scanned, left by an early return or put in the
            \* hot card cache
            recovering |-> {},
            \* _g1->set_refine_cte_cl_concurrency(...): the mode of the refinement
            \* closure as it was last set
            refine_cte_cl_concurrency |-> TRUE,
            \* the calls of prepare_for_verify made, and its local
            \* use_hot_card_cache
            verifies |-> 0,
            use_hot_card_cache |-> TRUE]

Init == InitStores(0)

\* ----------------------------------------------- mutator write barrier
\* (store reference; store DIRTY to card; enqueue card if it was not DIRTY)
MutStore(m, a, tgt) ==
  LET r == heap_region_containing(a) IN
  /\ phase = "conc"
  /\ mut[m].pc = "idle"
  /\ env.stores < MaxStores
  /\ rtype[r] # "FREE" /\ published[r] /\ a < top[r]
  /\ rtype[tgt] # "FREE" /\ published[tgt] /\ top[tgt] > bottom(tgt)
  /\ slot' = [slot EXCEPT ![a] = tgt]
  /\ env' = [env EXCEPT !.stores = @ + 1,
                         !.raced = @ \/ \E t \in Refiners :
                                      /\ rf[t].pc \notin {"idle", "done"}
                                      /\ rf[t].card_ptr = index_for(a)
                                      /\ tgt # r]
  \* a store within one region is filtered by the barrier
  /\ mut' = [mut EXCEPT ![m] = IF tgt = r THEN IdleMut ELSE [pc |-> "stored", addr |-> a]]
  /\ UNCHANGED << rb, phase, heapVars, card, rs, queueVars, conc_refine_cards, rf, gcw, ps >>

\* Card c is dirtied: the calls of refine_card_concurrently made for c are no
\* longer calls without a dirtying of c
NoteDirtied(rfv, c) ==
  [t \in Refiners |-> IF rfv[t].orig = c THEN [rfv[t] EXCEPT !.quiet = FALSE] ELSE rfv[t]]

MutDirty(m) ==
  LET c == index_for(mut[m].addr) IN
  /\ mut[m].pc = "stored"
  /\ IF card[c] \in {g1_young_card_val, dirty_card_val}
       THEN /\ mut' = [mut EXCEPT ![m] = IdleMut]
            /\ card' = card
            /\ env' = env
            /\ rf' = rf
       ELSE /\ card' = [card EXCEPT ![c] = dirty_card_val]
            /\ mut' = [mut EXCEPT ![m].pc = "enqueue"]
            /\ env' = [env EXCEPT !.barrier_cards = @ \cup {c}, !.cleaners[c] = {},
                                   !.returned[c] = FALSE]
            /\ rf' = NoteDirtied(rf, c)
  /\ UNCHANGED << rb, phase, heapVars, slot, rs, queueVars, conc_refine_cards, gcw, ps >>

\* An entry for card c is added to the mutator dirty-card queue set: every
\* call of refine_card_concurrently that has cleaned c counts the entry, until
\* the thread goes for its next card
InAttempt(t, c) ==
  rf[t].card_ptr = c /\ rf[t].cleans > 0 /\ rf[t].pc # "idle"
CountEnqueue(rfv, c) ==
  [t \in Refiners |->
     IF InAttempt(t, c) THEN [rfv[t] EXCEPT !.enq_since = Min(@ + 1, MaxEnqCount)]
                        ELSE rfv[t]]

MutEnqueue(m) ==
  /\ mut[m].pc = "enqueue"
  /\ dcq' = Enqueue(dcq, index_for(mut[m].addr))
  /\ mut' = [mut EXCEPT ![m] = IdleMut]
  /\ rf' = CountEnqueue(rf, index_for(mut[m].addr))
  /\ UNCHANGED << rb, phase, heapVars, slot, card, rs, into_cset_dcq, hcc, use_cache,
                  conc_refine_cards, gcw, ps, env >>

\* ------------------------------------------- concurrent refinement
\* The refinement thread's loop: take a card from a completed buffer of the
\* mutator dirty-card queue set and call refine_card_concurrently on it.
Refine_Take(t, c) ==
  /\ phase = "conc"
  /\ rf[t].pc = "idle"
  /\ dcq[c] > 0
  /\ dcq' = Dequeue(dcq, c)
  /\ rf' = [rf EXCEPT ![t] = [IdleRf EXCEPT !.pc = "entry", !.card_ptr = c, !.orig = c,
                                            !.again = env.returned[c], !.quiet = TRUE,
                                            !.rec = (c \in env.recovering)]]
  /\ UNCHANGED << rb, phase, heapVars, slot, card, rs, into_cset_dcq, hcc, use_cache,
                  conc_refine_cards, mut, gcw, ps, env >>

\* how a call of refine_card_concurrently ends when it has scanned the card or
\* has left it by an early return
SettledOutcomes == {"processed", "notdirty", "nottype", "evicted_nottype", "cached", "stale"}

Done(rec, outcome) == [rec EXCEPT !.pc = "done", !.out = outcome]

\* RCC_Entry without the early return for a card that is not DIRTY
RCC_Entry_unchecked(t) ==
  /\ rf[t].pc = "entry"
  /\ rf' = [rf EXCEPT ![t] =
              [@ EXCEPT !.pc = "type",
                        !.sawDirty = (card[rf[t].card_ptr] = dirty_card_val)]]
  /\ UNCHANGED << rb, phase, heapVars, slot, card, rs, queueVars, conc_refine_cards,
                  mut, gcw, ps, env >>

\* if (*card_ptr != dirty_card_val()) return;
RCC_Entry(t) ==
  /\ rf[t].pc = "entry"
  /\ rf' = [rf EXCEPT ![t] =
              IF card[rf[t].card_ptr] # dirty_card_val
                THEN Done(@, "notdirty")
                ELSE [@ EXCEPT !.pc = "type", !.sawDirty = TRUE]]
  /\ UNCHANGED << rb, phase, heapVars, slot, card, rs, queueVars, conc_refine_cards,
                  mut, gcw, ps, env >>

\* RCC_RegionType without the early return for a region that is not old or humongous
RCC_RegionType_unchecked(t) ==
  /\ rf[t].pc = "type"
  /\ rf' = [rf EXCEPT ![t].pc = "hot"]
  /\ UNCHANGED << rb, phase, heapVars, slot, card, rs, queueVars, conc_refine_cards,
                  mut, gcw, ps, env >>

\* start = addr_for(card_ptr); r = heap_region_containing(start);
\* if (!r->is_old_or_humongous()) return;
RCC_RegionType(t) ==
  /\ rf[t].pc = "type"
  /\ rf' = [rf EXCEPT ![t] =
              IF ~is_old_or_humongous(heap_region_containing(addr_for(rf[t].card_ptr)))
                THEN Done(@, "nottype")
                ELSE [@ EXCEPT !.pc = "hot"]]
  /\ UNCHANGED << rb, phase, heapVars, slot, card, rs, queueVars, conc_refine_cards,
                  mut, gcw, ps, env >>

\* G1HotCardCache::insert(card_ptr): the possible <<result, cache afterwards>>.
\* The card itself when it is not hot; NULL when the cache had headroom; else
\* the evicted (oldest) entry.
HotCardInsert(cache, c) ==
  { << c, cache >> } \cup
  ( IF Len(cache) < HotCacheSize
      THEN { << NoCard, Append(cache, c) >> }
      ELSE { << Head(cache), Append(Tail(cache), c) >> } )

\* if (hot_card_cache->use_cache()) { card_ptr = hot_card_cache->insert(card_ptr); ... }
RCC_HotCache(t) ==
  /\ rf[t].pc = "hot"
  /\ IF use_cache
       THEN \E res \in HotCardInsert(hcc, rf[t].card_ptr) :
              /\ hcc' = res[2]
              /\ rf' = [rf EXCEPT ![t] =
                   IF res[1] = NoCard
                     THEN Done(@, "cached")
                     ELSE IF res[1] # rf[t].card_ptr
                       THEN IF ~is_old_or_humongous(heap_region_containing(addr_for(res[1])))
                              THEN Done([@ EXCEPT !.card_ptr = res[1],
                                                  !.rec = (res[1] \in env.recovering)],
                                        "evicted_nottype")
                              ELSE [@ EXCEPT !.card_ptr = res[1], !.pc = "top",
                                             !.rec = (res[1] \in env.recovering)]
                       ELSE [@ EXCEPT !.pc = "top"]]
              /\ env' = IF res[1] \notin {NoCard, rf[t].card_ptr} /\ rf[t].rec
                          THEN [env EXCEPT !.recovering = @ \ {rf[t].card_ptr}]
                          ELSE env
       ELSE /\ hcc' = hcc
            /\ rf' = [rf EXCEPT ![t].pc = "top"]
            /\ env' = env
  /\ UNCHANGED << rb, phase, heapVars, slot, card, rs, dcq, into_cset_dcq, use_cache,
                  conc_refine_cards, mut, gcw, ps >>

\* RCC_ReadTop without the early return for a card at or above top
RCC_ReadTop_unchecked(t) ==
  /\ rf[t].pc = "top"
  /\ rf' = [rf EXCEPT ![t] =
              [@ EXCEPT !.scan_limit = top[heap_region_containing(addr_for(rf[t].card_ptr))],
                        !.pc = "clean"]]
  /\ UNCHANGED << rb, phase, heapVars, slot, card, rs, queueVars, conc_refine_cards,
                  mut, gcw, ps, env >>

\* scan_limit = r->top(); if (scan_limit <= start) return;
RCC_ReadTop(t) ==
  LET c == rf[t].card_ptr
      lim == top[heap_region_containing(addr_for(c))] IN
  /\ rf[t].pc = "top"
  /\ rf' = [rf EXCEPT ![t] =
              IF lim <= addr_for(c)
                THEN Done([@ EXCEPT !.scan_limit = lim], "stale")
                ELSE [@ EXCEPT !.scan_limit = lim, !.pc = "clean"]]
  /\ UNCHANGED << rb, phase, heapVars, slot, card, rs, queueVars, conc_refine_cards,
                  mut, gcw, ps, env >>

\* RCC_Clean going on to the scan with no fence in between
RCC_Clean_unfenced(t) ==
  /\ rf[t].pc = "clean"
  /\ rf' = [rf EXCEPT ![t] = [@ EXCEPT !.pc = "scan", !.sb = TRUE, !.cleans = @ + 1,
                        !.dirty_at_clean = (card[rf[t].card_ptr] = dirty_card_val)]]
  /\ env' = [env EXCEPT !.cleaners[rf[t].card_ptr] = @ \cup {t}]
  /\ UNCHANGED << rb, phase, heapVars, slot, card, rs, queueVars, conc_refine_cards,
                  mut, gcw, ps >>

\* *const_cast<volatile jbyte*>(card_ptr) = clean_card_val();
\* The store is issued; it is globally visible once it has left the store buffer.
RCC_Clean(t) ==
  /\ rf[t].pc = "clean"
  /\ rf' = [rf EXCEPT ![t] = [@ EXCEPT !.pc = "fence", !.sb = TRUE, !.cleans = @ + 1,
                        !.dirty_at_clean = (card[rf[t].card_ptr] = dirty_card_val)]]
  /\ env' = [env EXCEPT !.cleaners[rf[t].card_ptr] = @ \cup {t}]
  /\ UNCHANGED << rb, phase, heapVars, slot, card, rs, queueVars, conc_refine_cards,
                  mut, gcw, ps >>

\* The pending clean store leaves the store buffer on its own.
RCC_StoreDrain(t) ==
  /\ rf[t].sb
  /\ card' = [card EXCEPT ![rf[t].card_ptr] = clean_card_val]
  /\ rf' = [rf EXCEPT ![t].sb = FALSE]
  /\ UNCHANGED << rb, phase, heapVars, slot, rs, queueVars, conc_refine_cards, mut, gcw, ps, env >>

\* RCC_Fence ordering the compiler only: the store buffer is not drained
RCC_Fence_nodrain(t) ==
  /\ rf[t].pc = "fence"
  /\ rf' = [rf EXCEPT ![t] = [@ EXCEPT !.pc = "scan", !.fenced = TRUE]]
  /\ UNCHANGED << rb, phase, heapVars, slot, card, rs, queueVars, conc_refine_cards,
                  mut, gcw, ps, env >>

\* OrderAccess::fence(): the store buffer is empty before anything later is read.
RCC_Fence(t) ==
  /\ rf[t].pc = "fence"
  /\ card' = IF rf[t].sb THEN [card EXCEPT ![rf[t].card_ptr] = clean_card_val] ELSE card
  /\ rf' = [rf EXCEPT ![t] = [@ EXCEPT !.pc = "scan", !.sb = FALSE, !.fenced = TRUE]]
  /\ UNCHANGED << rb, phase, heapVars, slot, rs, queueVars, conc_refine_cards, mut, gcw, ps, env >>

\* The cards the references stored in mr contribute to the remembered set of
\* region tgt: G1ConcurrentRefineOopClosure adds the card of every reference
\* whose target lies in another region than the reference itself.
ConcRefineAdds(mr, tgt) ==
  { index_for(a) : a \in { b \in mr : slot[b] = tgt /\ heap_region_containing(b) # tgt } }

\* HeapRegion::oops_on_card_seq_iterate_careful<false>: FALSE when the card
\* covers a partially initialised object
CardParsable(r) == published[r]

\* bool card_processed = r->oops_on_card_seq_iterate_careful<false>(dirty_region, &conc_refine_cl);
RCC_Scan(t) ==
  LET c == rf[t].card_ptr
      r == heap_region_containing(addr_for(c))
      mr == dirty_region(c, rf[t].scan_limit) IN
  /\ rf[t].pc = "scan"
  /\ IF CardParsable(r)
       THEN /\ rs' = [x \in Regions |-> rs[x] \cup ConcRefineAdds(mr, x)]
            /\ rf' = [rf EXCEPT ![t] =
                 [@ EXCEPT !.pc = "count",
                           !.found = { slot[a] : a \in mr } \ {NoRef, r}]]
       ELSE /\ rs' = rs
            /\ rf' = [rf EXCEPT ![t].pc = "redirty_check"]
  /\ UNCHANGED << rb, phase, heapVars, slot, card, queueVars, conc_refine_cards, mut, gcw, ps, env >>

\* if (!card_processed) { if (*card_ptr != dirty_card_val()) {
RCC_RedirtyCheck(t) ==
  /\ rf[t].pc = "redirty_check"
  /\ rf' = [rf EXCEPT ![t] =
              IF card[rf[t].card_ptr] # dirty_card_val
                THEN [@ EXCEPT !.pc = "redirty_store"]
                ELSE Done(@, "redirty_skipped")]
  /\ UNCHANGED << rb, phase, heapVars, slot, card, rs, queueVars, conc_refine_cards,
                  mut, gcw, ps, env >>

\* *card_ptr = dirty_card_val();
RCC_RedirtyStore(t) ==
  /\ rf[t].pc = "redirty_store"
  /\ card' = [card EXCEPT ![rf[t].card_ptr] = dirty_card_val]
  /\ rf' = IF card[rf[t].card_ptr] = dirty_card_val
             THEN [rf EXCEPT ![t].pc = "redirty_enq"]
             ELSE NoteDirtied([rf EXCEPT ![t].pc = "redirty_enq"], rf[t].card_ptr)
  /\ env' = IF card[rf[t].card_ptr] = dirty_card_val
              THEN env
              ELSE [env EXCEPT !.cleaners[rf[t].card_ptr] = {},
                               !.returned[rf[t].card_ptr] = FALSE]
  /\ UNCHANGED << rb, phase, heapVars, slot, rs, queueVars, conc_refine_cards, mut, gcw, ps >>

\* RCC_RedirtyEnqueue that redirties the card but forgets to enqueue it
RCC_RedirtyEnqueue_lost(t) ==
  /\ rf[t].pc = "redirty_enq"
  /\ rf' = [rf EXCEPT ![t] = Done(@, "redirtied")]
  /\ env' = [env EXCEPT !.recovering = @ \cup {rf[t].card_ptr}]
  /\ UNCHANGED << rb, phase, heapVars, slot, card, rs, queueVars, conc_refine_cards,
                  mut, gcw, ps >>

\* MutexLockerEx x(Shared_DirtyCardQ_lock); sdcq->enqueue(card_ptr);
RCC_RedirtyEnqueue(t) ==
  /\ rf[t].pc = "redirty_enq"
  /\ dcq' = Enqueue(dcq, rf[t].card_ptr)
  /\ rf' = [CountEnqueue(rf, rf[t].card_ptr) EXCEPT ![t] =
              Done([@ EXCEPT !.enq = @ + 1], "redirtied")]
  /\ env' = [env EXCEPT !.recovering = @ \cup {rf[t].card_ptr}]
  /\ UNCHANGED << rb, phase, heapVars, slot, card, rs, into_cset_dcq, hcc, use_cache,
                  conc_refine_cards, mut, gcw, ps >>

\* } else { _conc_refine_cards++; }
RCC_Count(t) ==
  /\ rf[t].pc = "count"
  /\ conc_refine_cards' = conc_refine_cards + 1
  /\ rf' = [rf EXCEPT ![t] = Done(@, "processed")]
  /\ UNCHANGED << rb, phase, heapVars, slot, card, rs, queueVars, mut, gcw, ps, env >>

\* refine_card_concurrently has returned; the thread goes for its next card
RCC_Return(t) ==
  /\ rf[t].pc = "done"
  /\ rf' = [rf EXCEPT ![t] = IdleRf]
  /\ env' = [env EXCEPT !.returned[rf[t].orig] = @ \/ rf[t].quiet,
                         !.recovering = IF rf[t].rec /\ rf[t].out \in SettledOutcomes
                                          THEN @ \ {rf[t].card_ptr} ELSE @]
  /\ UNCHANGED << rb, phase, heapVars, slot, card, rs, queueVars, conc_refine_cards,
                  mut, gcw, ps >>

refine_card_concurrently(t) ==
  \/ RCC_Entry(t)
  \/ RCC_RegionType(t)
  \/ RCC_HotCache(t)
  \/ RCC_ReadTop(t)
  \/ RCC_Clean(t)
  \/ RCC_StoreDrain(t)
  \/ RCC_Fence(t)
  \/ RCC_Scan(t)
  \/ RCC_RedirtyCheck(t)
  \/ RCC_RedirtyStore(t)
  \/ RCC_RedirtyEnqueue(t)
  \/ RCC_Count(t)
  \/ RCC_Return(t)

\* --------------------------------- region allocation and reclamation
CardsOf(r) == { c \in Cards : heap_region_containing(addr_for(c)) = r }
AddrsOf(r) == { a \in Addrs : heap_region_containing(a) = r }

\* A free region becomes a mutator allocation (young) region.
AllocYoung(r) ==
  /\ phase = "conc"
  /\ rtype[r] = "FREE"
  /\ env.allocs < MaxAllocs
  /\ rtype' = [rtype EXCEPT ![r] = "YOUNG"]
  /\ top' = [top EXCEPT ![r] = end_of(r)]
  /\ slot' = [a \in Addrs |-> IF a \in AddrsOf(r) THEN NoRef ELSE slot[a]]
  /\ env' = [env EXCEPT !.allocs = @ + 1, !.recycled = @ \cup {r}]
  /\ UNCHANGED << rb, phase, scan_top, published, in_cset, card, rs, queueVars,
                  conc_refine_cards, mut, rf, gcw, ps >>

\* The cards of a young region are marked g1_young_gen, concurrently with
\* the mutators that already write into the region.
MarkYoung(r) ==
  /\ phase = "conc"
  /\ rtype[r] = "YOUNG"
  /\ \E c \in CardsOf(r) : card[c] # g1_young_card_val
  /\ card' = [c \in Cards |-> IF c \in CardsOf(r) THEN g1_young_card_val ELSE card[c]]
  /\ UNCHANGED << rb, phase, heapVars, slot, rs, queueVars, conc_refine_cards, mut, rf, gcw, ps, env >>

\* Humongous allocation: the region's type is set, top is set last, and the
\* object is parsable only once its header has been published.
HumSizes == {1, RegionWords - 1}

HumAlloc_Type(r) ==
  /\ phase = "conc"
  /\ rtype[r] = "FREE"
  /\ env.allocs < MaxAllocs
  /\ rtype' = [rtype EXCEPT ![r] = "HUM"]
  /\ published' = [published EXCEPT ![r] = FALSE]
  /\ env' = [env EXCEPT !.allocs = @ + 1, !.recycled = @ \cup {r}]
  /\ UNCHANGED << rb, phase, top, scan_top, in_cset, slot, card, rs, queueVars,
                  conc_refine_cards, mut, rf, gcw, ps >>

HumAlloc_Top(r, sz) ==
  /\ phase = "conc"
  /\ rtype[r] = "HUM" /\ ~published[r] /\ top[r] = bottom(r)
  /\ top' = [top EXCEPT ![r] = bottom(r) + sz]
  /\ UNCHANGED << rb, phase, rtype, scan_top, published, in_cset, slot, card, rs, queueVars,
                  conc_refine_cards, mut, rf, gcw, ps, env >>

HumAlloc_Publish(r) ==
  /\ phase = "conc"
  /\ rtype[r] = "HUM" /\ ~published[r] /\ top[r] > bottom(r)
  /\ published' = [published EXCEPT ![r] = TRUE]
  /\ slot' = [a \in Addrs |-> IF a \in AddrsOf(r) /\ a < top[r] THEN NoRef ELSE slot[a]]
  /\ UNCHANGED << rb, phase, rtype, top, scan_top, in_cset, card, rs, queueVars,
                  conc_refine_cards, mut, rf, gcw, ps, env >>

\* Some live word outside r refers to r
Referenced(r) ==
  \E a \in Addrs : /\ heap_region_containing(a) # r
                   /\ rtype[heap_region_containing(a)] # "FREE"
                   /\ a < top[heap_region_containing(a)]
                   /\ slot[a] = r

\* A region without live objects is freed at a safepoint (mutators and
\* refinement threads are stopped between two cards).  Its remembered set is
\* cleared; its card-table bytes and the queue entries naming its cards stay.
FreeRegion(r) ==
  /\ phase = "conc"
  /\ ThreadsQuiescent
  /\ env.frees < MaxFrees
  /\ is_old_or_humongous(r) /\ published[r]
  /\ ~Referenced(r)
  /\ rtype' = [rtype EXCEPT ![r] = "FREE"]
  /\ top' = [top EXCEPT ![r] = bottom(r)]
  /\ rs' = [rs EXCEPT ![r] = {}]
  /\ env' = [env EXCEPT !.frees = @ + 1, !.recycled = @ \cup {r}]
  /\ UNCHANGED << rb, phase, scan_top, published, in_cset, slot, card, queueVars,
                  conc_refine_cards, mut, rf, gcw, ps >>

\* ------------------------------------------------ the evacuation pause
\* G1RSetScanBlockSize; _block_size = MAX2<int>(G1RSetScanBlockSize, 1)
G1RSetScanBlockSize == env.G1RSetScanBlockSize
\* the block size taken from the flag as it is
block_size_unclamped == G1RSetScanBlockSize
block_size == IF G1RSetScanBlockSize > 1 THEN G1RSetScanBlockSize ELSE 1

CSetRegions == { r \in Regions : in_cset[r] }
\* the k-th smallest element of S, counting from 0
Nth(S, k) == CHOOSE x \in S : Cardinality({ y \in S : y < x }) = k
\* G1CollectedHeap::collection_set_iterate_from(cl, worker_i): the k-th region
\* worker w visits; each worker starts at its own offset into the collection set
CSetRegionFor(w, k) ==
  LET n == Cardinality(CSetRegions)
      start == ((w - 1) * n) \div NWorkers
  IN Nth(CSetRegions, (start + k) % n)

\* No humongous allocation or young-card marking is in flight
AllocQuiescent ==
  /\ \A r \in Regions : rtype[r] = "HUM" => published[r]
  /\ \A r \in Regions : rtype[r] = "YOUNG" =>
        \A c \in CardsOf(r) : card[c] = g1_young_card_val

\* A safepoint is reached to collect the young generation: the collection set
\* holds every young region and possibly old regions, and
\* prepare_for_oops_into_collection_set_do runs.
StartPause(cs) ==
  /\ phase = "conc"
  /\ ThreadsQuiescent /\ AllocQuiescent
  /\ env.pauses < MaxPauses
  /\ \E r \in cs : rtype[r] = "YOUNG"
  /\ \A r \in cs : rtype[r] \in {"YOUNG", "OLD"}
  /\ \A r \in Regions : rtype[r] = "YOUNG" => r \in cs
  /\ phase' = "pause"
  /\ in_cset' = [r \in Regions |-> r \in cs]
  /\ scan_top' = top
  /\ ps' = [InitPs EXCEPT !.all_dirty_logged =
                            \A c \in Cards : card[c] = dirty_card_val =>
                               dcq[c] > 0 \/ \E i \in 1 .. Len(hcc) : hcc[i] = c]
  /\ gcw' = [w \in Workers |-> IdleGcw]
  \* the mutators and the refinement threads stay stopped from here on: their
  \* budgets are closed and the history of their races is dropped
  /\ env' = [env EXCEPT !.pauses = @ + 1,
                         !.stores = MaxStores, !.allocs = MaxAllocs, !.frees = MaxFrees,
                         !.raced = FALSE, !.cleaners = [c \in Cards |-> {}],
                         !.returned = [c \in Cards |-> FALSE],
                         \* _g1->set_refine_cte_cl_concurrency(false);
                         !.refine_cte_cl_concurrency = FALSE]
  /\ UNCHANGED << rb, rtype, top, published, slot, card, rs, queueVars, conc_refine_cards,
                  mut, rf >>

\* The card table as seen once worker w's pending clean store has drained
Drained(w) ==
  IF gcw[w].sb THEN [card EXCEPT ![gcw[w].card_ptr] = clean_card_val] ELSE card

\* oops_into_collection_set_do: _cset_rs_update_cl[worker_i] = oc; updateRS(...)
OICS_Begin(w) ==
  /\ phase = "pause"
  /\ gcw[w].pc = "idle"
  /\ ps' = [ps EXCEPT !.cset_rs_update_cl = @ \cup {w}]
  /\ gcw' = [gcw EXCEPT ![w].pc = "updateRS"]
  /\ UNCHANGED << rb, phase, heapVars, slot, card, rs, queueVars, conc_refine_cards,
                  mut, rf, env >>

TakeCard(w, c) ==
  [IdleGcw EXCEPT !.pc = "rdg_entry", !.card_ptr = c, !.cards_done = gcw[w].cards_done]

\* G1CollectedHeap::iterate_dirty_card_closure: the next card of a completed
\* buffer goes to do_card_ptr
URS_TakeQueue(w, c) ==
  /\ gcw[w].pc = "updateRS"
  /\ dcq[c] > 0
  /\ dcq' = Dequeue(dcq, c)
  /\ card' = Drained(w)
  /\ gcw' = [gcw EXCEPT ![w] = TakeCard(w, c)]
  /\ UNCHANGED << rb, phase, heapVars, slot, rs, into_cset_dcq, hcc, use_cache,
                  conc_refine_cards, mut, rf, ps, env >>

\* ... and so do the cards drained from the hot card cache
URS_TakeHot(w) ==
  /\ gcw[w].pc = "updateRS"
  /\ hcc # << >>
  /\ hcc' = Tail(hcc)
  /\ card' = Drained(w)
  /\ gcw' = [gcw EXCEPT ![w] = TakeCard(w, Head(hcc))]
  /\ UNCHANGED << rb, phase, heapVars, slot, rs, dcq, into_cset_dcq, use_cache,
                  conc_refine_cards, mut, rf, ps, env >>

\* URS_Finish returning while completed buffers or hot cards are left
URS_Finish_undrained(w) ==
  /\ phase = "pause"
  /\ gcw[w].pc = "updateRS"
  /\ card' = Drained(w)
  /\ gcw' = [gcw EXCEPT ![w] = [IdleGcw EXCEPT !.pc = "scanRS",
                                               !.cards_done = gcw[w].cards_done]]
  /\ UNCHANGED << rb, phase, heapVars, slot, rs, queueVars, conc_refine_cards,
                  mut, rf, ps, env >>

\* updateRS returns when no buffer is left; scanRS(oc, code_root_cl, worker_i) follows
URS_Finish(w) ==
  /\ phase = "pause"
  /\ gcw[w].pc = "updateRS"
  /\ dcq = NoEntries /\ hcc = << >>
  /\ card' = Drained(w)
  /\ gcw' = [gcw EXCEPT ![w] = [IdleGcw EXCEPT !.pc = "scanRS",
                                               !.cards_done = gcw[w].cards_done]]
  /\ UNCHANGED << rb, phase, heapVars, slot, rs, queueVars, conc_refine_cards,
                  mut, rf, ps, env >>

\* RDG_EarlyReturn without the return for a card of a collection-set region
RDG_EarlyReturn_no_cset(c) ==
  LET r == heap_region_containing(addr_for(c)) IN
  IF card[c] # dirty_card_val THEN "notdirty"
  ELSE IF ~is_old_or_humongous(r) THEN "nottype"
  ELSE IF scan_top[r] <= addr_for(c) THEN "stale"
  ELSE "none"

\* RDG_EarlyReturn taking a card that scan_top cuts short for a stale one
RDG_EarlyReturn_whole_card(c) ==
  LET r == heap_region_containing(addr_for(c)) IN
  IF card[c] # dirty_card_val THEN "notdirty"
  ELSE IF ~is_old_or_humongous(r) THEN "nottype"
  ELSE IF in_cset[r] THEN "incset"
  ELSE IF scan_top[r] < addr_for(c) + CardWords THEN "stale"
  ELSE "none"

\* The early returns of refine_card_during_gc, in the code's order; "none" when
\* the card is to be cleaned and scanned
RDG_EarlyReturn(c) ==
  LET r == heap_region_containing(addr_for(c)) IN
  IF card[c] # dirty_card_val THEN "notdirty"
  ELSE IF ~is_old_or_humongous(r) THEN "nottype"
  ELSE IF in_cset[r] THEN "incset"
  ELSE IF scan_top[r] <= addr_for(c) THEN "stale"
  ELSE "none"

\* refine_card_during_gc up to "if (scan_limit <= start) return false;"
RDG_Checks(w) ==
  LET c == gcw[w].card_ptr
      e == RDG_EarlyReturn(c) IN
  /\ gcw[w].pc = "rdg_entry"
  /\ gcw' = [gcw EXCEPT ![w] =
       IF e # "none"
         THEN [@ EXCEPT !.pc = "rdg_ret", !.out = e, !.has_refs = FALSE]
         ELSE [@ EXCEPT !.pc = "rdg_clean",
                        !.scan_limit = scan_top[heap_region_containing(addr_for(c))]]]
  /\ UNCHANGED << rb, phase, heapVars, slot, card, rs, queueVars, conc_refine_cards,
                  mut, rf, ps, env >>

\* *const_cast<volatile jbyte*>(card_ptr) = clean_card_val();  (no fence follows)
RDG_Clean(w) ==
  /\ gcw[w].pc = "rdg_clean"
  /\ gcw' = [gcw EXCEPT ![w] = [@ EXCEPT !.pc = "rdg_scan", !.sb = TRUE]]
  /\ UNCHANGED << rb, phase, heapVars, slot, card, rs, queueVars, conc_refine_cards,
                  mut, rf, ps, env >>

\* The worker's pending clean store leaves its store buffer on its own.
GC_StoreDrain(w) ==
  /\ gcw[w].sb
  /\ card' = Drained(w)
  /\ gcw' = [gcw EXCEPT ![w].sb = FALSE]
  /\ UNCHANGED << rb, phase, heapVars, slot, rs, queueVars, conc_refine_cards, mut, rf, ps, env >>

\* the closure constructed with record_refs_into_cset = false
record_refs_into_cset_off == FALSE

\* G1UpdateRSOrPushRefOopClosure update_rs_oop_cl(_g1, oops_in_heap_closure, true, worker_i)
record_refs_into_cset == TRUE

\* G1UpdateRSOrPushRefOopClosure: the references of mr that are pushed to the
\* evacuation closure instead of being added to a remembered set
UpdateRSPushes(mr) ==
  { a \in mr : /\ slot[a] # NoRef
               /\ slot[a] # heap_region_containing(a)
               /\ record_refs_into_cset /\ in_cset[slot[a]] }

\* ... and the cards it adds to the remembered set of region tgt
UpdateRSAdds(mr, tgt) ==
  { index_for(a) : a \in { b \in mr \ UpdateRSPushes(mr) :
                             slot[b] = tgt /\ heap_region_containing(b) # tgt } }

\* oops_on_card_seq_iterate_careful<true>(dirty_region, &update_rs_oop_cl);
\* _conc_refine_cards++; return update_rs_oop_cl.has_refs_into_cset();
RDG_Scan(w) ==
  LET c == gcw[w].card_ptr
      mr == dirty_region(c, gcw[w].scan_limit) IN
  /\ gcw[w].pc = "rdg_scan"
  /\ rs' = [x \in Regions |-> rs[x] \cup UpdateRSAdds(mr, x)]
  /\ ps' = [ps EXCEPT !.pushed = @ \cup { << index_for(a), slot[a] >> : a \in UpdateRSPushes(mr) },
                      !.rdg_scans = @ \cup {c}]
  /\ conc_refine_cards' = conc_refine_cards + 1
  /\ gcw' = [gcw EXCEPT ![w] = [@ EXCEPT !.pc = "rdg_ret", !.out = "processed",
                                         !.has_refs = (UpdateRSPushes(mr) # {})]]
  /\ UNCHANGED << rb, phase, heapVars, slot, card, queueVars, mut, rf, env >>

\* do_card_ptr enqueueing the card whatever refine_card_during_gc returned
do_card_ptr_always(w) ==
  /\ gcw[w].pc = "rdg_ret"
  /\ into_cset_dcq' = Enqueue(into_cset_dcq, gcw[w].card_ptr)
  /\ gcw' = [gcw EXCEPT ![w].pc = "updateRS"]
  /\ UNCHANGED << rb, phase, heapVars, slot, card, rs, dcq, hcc, use_cache,
                  conc_refine_cards, mut, rf, ps, env >>

\* RefineRecordRefsIntoCSCardTableEntryClosure::do_card_ptr:
\* if (refine_card_during_gc(card_ptr, worker_i)) _into_cset_dcq->enqueue(card_ptr);
do_card_ptr(w) ==
  /\ gcw[w].pc = "rdg_ret"
  /\ into_cset_dcq' = IF gcw[w].has_refs THEN Enqueue(into_cset_dcq, gcw[w].card_ptr)
                                         ELSE into_cset_dcq
  /\ gcw' = [gcw EXCEPT ![w].pc = "updateRS"]
  /\ UNCHANGED << rb, phase, heapVars, slot, card, rs, dcq, hcc, use_cache,
                  conc_refine_cards, mut, rf, ps, env >>

\* ---- scanRS: two passes of ScanRSClosure::doHeapRegion over the collection set
CurRegion(w) == CSetRegionFor(w, gcw[w].visited)

\* collection_set_iterate_from hands the next region to doHeapRegion:
\* if (hrrs->iter_is_complete()) return false;
DHR_CheckComplete(w) ==
  /\ gcw[w].pc = "scanRS"
  /\ gcw[w].visited < Cardinality(CSetRegions)
  /\ gcw' = [gcw EXCEPT ![w] =
       IF ps.iter_state[CurRegion(w)] = "Complete"
         THEN [@ EXCEPT !.visited = @ + 1]
         ELSE [@ EXCEPT !.pc = "dhr_claim"]]
  /\ UNCHANGED << rb, phase, heapVars, slot, card, rs, queueVars, conc_refine_cards,
                  mut, rf, ps, env >>

\* DHR_Claim with claim_iter() succeeding for every worker of the first pass
DHR_Claim_every_worker(w) ==
  LET r == CurRegion(w) IN
  /\ gcw[w].pc = "dhr_claim"
  /\ gcw' = [gcw EXCEPT ![w] = [@ EXCEPT !.pc = "dhr_loop", !.current_card = 0,
                                         !.jump_to_card = ps.iter_claimed[r]]]
  /\ ps' = [ps EXCEPT !.iter_state[r] = IF gcw[w].try_claimed THEN @ ELSE "Claimed",
                      !.claimants[r] = IF gcw[w].try_claimed THEN @ ELSE @ \cup {w},
                      !.dirty_cards_region_list = @ \cup {r},
                      !.iter_claimed[r] = @ + block_size]
  /\ UNCHANGED << rb, phase, heapVars, slot, card, rs, queueVars, conc_refine_cards,
                  mut, rf, env >>

\* if (!_try_claimed && !hrrs->claim_iter()) return false;
\* size_t jump_to_card = hrrs->iter_claimed_next(_block_size);
DHR_Claim(w) ==
  LET r == CurRegion(w) IN
  /\ gcw[w].pc = "dhr_claim"
  /\ IF ~gcw[w].try_claimed /\ ps.iter_state[r] # "Unclaimed"
       THEN /\ gcw' = [gcw EXCEPT ![w] = [@ EXCEPT !.pc = "scanRS", !.visited = @ + 1]]
            /\ ps' = ps
       ELSE /\ gcw' = [gcw EXCEPT ![w] = [@ EXCEPT !.pc = "dhr_loop", !.current_card = 0,
                                                   !.jump_to_card = ps.iter_claimed[r]]]
            /\ ps' = [ps EXCEPT !.iter_state[r] = IF gcw[w].try_claimed THEN @ ELSE "Claimed",
                                !.claimants[r] = IF gcw[w].try_claimed THEN @ ELSE @ \cup {w},
                                !.dirty_cards_region_list = @ \cup {r},
                                !.iter_claimed[r] = @ + block_size]
  /\ UNCHANGED << rb, phase, heapVars, slot, card, rs, queueVars, conc_refine_cards,
                  mut, rf, env >>

\* for (current_card = 0; iter.has_next(card_index); current_card++) {
\*   if (current_card >= jump_to_card + _block_size) jump_to_card = iter_claimed_next(..);
\*   if (current_card < jump_to_card) continue;
\*   if (!card_region->is_on_dirty_cards_region_list()) push_dirty_cards_region(card_region);
DHR_Loop(w) ==
  LET r == CurRegion(w)
      cur == gcw[w].current_card
      reclaim == cur >= gcw[w].jump_to_card + block_size
      jump == IF reclaim THEN ps.iter_claimed[r] ELSE gcw[w].jump_to_card IN
  /\ gcw[w].pc = "dhr_loop"
  /\ IF cur >= Cardinality(rs[r])
       THEN /\ gcw' = [gcw EXCEPT ![w].pc = "dhr_end"]
            /\ ps' = ps
       ELSE /\ ps' = [ps EXCEPT
                 !.iter_claimed[r] = IF reclaim THEN @ + block_size ELSE @,
                 !.handled[r][cur] = IF cur < jump THEN @ ELSE Append(@, w),
                 !.dirty_cards_region_list =
                    IF cur < jump THEN @
                    ELSE @ \cup {heap_region_containing(addr_for(Nth(rs[r], cur)))}]
            /\ gcw' = [gcw EXCEPT ![w] =
                 IF cur < jump
                   THEN [@ EXCEPT !.jump_to_card = jump, !.current_card = cur + 1]
                   ELSE [@ EXCEPT !.jump_to_card = jump, !.pc = "dhr_card",
                                  !.card_index = Nth(rs[r], cur)]]
  /\ UNCHANGED << rb, phase, heapVars, slot, card, rs, queueVars, conc_refine_cards,
                  mut, rf, env >>

\* DHR_Card without the test of the collection set
DHR_Card_any_region(w) ==
  /\ gcw[w].pc = "dhr_card"
  /\ gcw' = [gcw EXCEPT ![w] =
       IF card[gcw[w].card_index] # dirty_card_val
         THEN [@ EXCEPT !.pc = "sc_check"]
         ELSE [@ EXCEPT !.pc = "dhr_loop", !.current_card = @ + 1, !.card_index = NoCard]]
  /\ UNCHANGED << rb, phase, heapVars, slot, card, rs, queueVars, conc_refine_cards,
                  mut, rf, ps, env >>

\* if (!card_region->in_collection_set() && !_ct_bs->is_card_dirty(card_index)) scanCard(..)
DHR_Card(w) ==
  LET ci == gcw[w].card_index
      card_region == heap_region_containing(addr_for(ci)) IN
  /\ gcw[w].pc = "dhr_card"
  /\ gcw' = [gcw EXCEPT ![w] =
       IF ~in_cset[card_region] /\ card[ci] # dirty_card_val
         THEN [@ EXCEPT !.pc = "sc_check"]
         ELSE [@ EXCEPT !.pc = "dhr_loop", !.current_card = @ + 1, !.card_index = NoCard]]
  /\ UNCHANGED << rb, phase, heapVars, slot, card, rs, queueVars, conc_refine_cards,
                  mut, rf, ps, env >>

\* scanCard: MemRegion mr = pre_gc_allocated.intersection(card_region)
scanCard_mr(ci) ==
  LET r == heap_region_containing(addr_for(ci)) IN
  { a \in Addrs : /\ addr_for(ci) <= a /\ a < addr_for(ci) + CardWords
                  /\ bottom(r) <= a /\ a < scan_top[r] }

\* SC_Check without the test of the card's claimed mark
SC_Check_unclaimed(w) ==
  LET ci == gcw[w].card_index IN
  /\ gcw[w].pc = "sc_check"
  /\ gcw' = [gcw EXCEPT ![w] =
       IF scanCard_mr(ci) # {}
         THEN [@ EXCEPT !.pc = "sc_scan"]
         ELSE [@ EXCEPT !.pc = "dhr_loop", !.current_card = @ + 1, !.card_index = NoCard]]
  /\ UNCHANGED << rb, phase, heapVars, slot, card, rs, queueVars, conc_refine_cards,
                  mut, rf, ps, env >>

\* if (!mr.is_empty() && !_ct_bs->is_card_claimed(index)) {
SC_Check(w) ==
  LET ci == gcw[w].card_index IN
  /\ gcw[w].pc = "sc_check"
  /\ gcw' = [gcw EXCEPT ![w] =
       IF scanCard_mr(ci) # {} /\ card[ci] # claimed_card_val
         THEN [@ EXCEPT !.pc = "sc_scan"]
         ELSE [@ EXCEPT !.pc = "dhr_loop", !.current_card = @ + 1, !.card_index = NoCard]]
  /\ UNCHANGED << rb, phase, heapVars, slot, card, rs, queueVars, conc_refine_cards,
                  mut, rf, ps, env >>

\* _ct_bs->set_card_claimed(index); _cards_done++; cl.do_MemRegion(mr); }
SC_Scan(w) ==
  LET ci == gcw[w].card_index IN
  /\ gcw[w].pc = "sc_scan"
  /\ card' = [card EXCEPT ![ci] = claimed_card_val]
  /\ ps' = [ps EXCEPT !.scans[ci] = @ + 1,
                      !.scan_log = @ \cup { << ci, w, gcw[w].try_claimed >> },
                      !.pushed = @ \cup { << ci, slot[a] >> :
                                   a \in { b \in scanCard_mr(ci) :
                                             slot[b] # NoRef /\ in_cset[slot[b]] } }]
  /\ gcw' = [gcw EXCEPT ![w] = [@ EXCEPT !.pc = "dhr_loop", !.current_card = @ + 1,
                                         !.card_index = NoCard, !.cards_done = @ + 1]]
  /\ UNCHANGED << rb, phase, heapVars, slot, rs, queueVars, conc_refine_cards, mut, rf, env >>

\* DHR_End with the code roots scanned and the iterator marked complete by a
\* worker of the second pass as well
DHR_End_any_pass(w) ==
  LET r == CurRegion(w) IN
  /\ gcw[w].pc = "dhr_end"
  /\ ps' = [ps EXCEPT !.code_roots[r] = @ + 1, !.iter_state[r] = "Complete"]
  /\ gcw' = [gcw EXCEPT ![w] = [@ EXCEPT !.pc = "scanRS", !.visited = @ + 1,
                                         !.current_card = 0, !.jump_to_card = 0]]
  /\ UNCHANGED << rb, phase, heapVars, slot, card, rs, queueVars, conc_refine_cards,
                  mut, rf, env >>

\* if (!_try_claimed) { scan_strong_code_roots(r); hrrs->set_iter_complete(); } return false;
DHR_End(w) ==
  LET r == CurRegion(w) IN
  /\ gcw[w].pc = "dhr_end"
  /\ ps' = IF gcw[w].try_claimed THEN ps
           ELSE [ps EXCEPT !.code_roots[r] = @ + 1, !.iter_state[r] = "Complete"]
  /\ gcw' = [gcw EXCEPT ![w] = [@ EXCEPT !.pc = "scanRS", !.visited = @ + 1,
                                         !.current_card = 0, !.jump_to_card = 0]]
  /\ UNCHANGED << rb, phase, heapVars, slot, card, rs, queueVars, conc_refine_cards,
                  mut, rf, env >>

\* scanRS: scanRScl.set_try_claimed(); collection_set_iterate_from(&scanRScl, worker_i);
SRS_SecondPass(w) ==
  /\ gcw[w].pc = "scanRS"
  /\ gcw[w].visited = Cardinality(CSetRegions)
  /\ ~gcw[w].try_claimed
  /\ gcw' = [gcw EXCEPT ![w] = [@ EXCEPT !.try_claimed = TRUE, !.visited = 0]]
  /\ UNCHANGED << rb, phase, heapVars, slot, card, rs, queueVars, conc_refine_cards,
                  mut, rf, ps, env >>

\* scanRS returns; oops_into_collection_set_do: _cset_rs_update_cl[worker_i] = NULL;
OICS_End(w) ==
  /\ gcw[w].pc = "scanRS"
  /\ gcw[w].visited = Cardinality(CSetRegions)
  /\ gcw[w].try_claimed
  /\ ps' = [ps EXCEPT !.cset_rs_update_cl = @ \ {w}]
  /\ gcw' = [gcw EXCEPT ![w].pc = "finished"]
  /\ UNCHANGED << rb, phase, heapVars, slot, card, rs, queueVars, conc_refine_cards,
                  mut, rf, env >>

refine_card_during_gc(w) ==
  \/ RDG_Checks(w)
  \/ RDG_Clean(w)
  \/ GC_StoreDrain(w)
  \/ RDG_Scan(w)

updateRS(w) ==
  \/ \E c \in Cards : URS_TakeQueue(w, c)
  \/ URS_TakeHot(w)
  \/ refine_card_during_gc(w)
  \/ do_card_ptr(w)
  \/ URS_Finish(w)

scanRS(w) ==
  \/ DHR_CheckComplete(w)
  \/ DHR_Claim(w)
  \/ DHR_Loop(w)
  \/ DHR_Card(w)
  \/ SC_Check(w)
  \/ SC_Scan(w)
  \/ DHR_End(w)
  \/ SRS_SecondPass(w)

oops_into_collection_set_do(w) ==
  \/ OICS_Begin(w)
  \/ updateRS(w)
  \/ scanRS(w)
  \/ OICS_End(w)

\* ---- after the workers: cleanup_after_oops_into_collection_set_do
RECURSIVE SumCardsDone(_)
\* for (i < n_workers()) _total_cards_scanned += _cards_scanned[i];
SumCardsDone(ws) ==
  IF ws = {} THEN 0
  ELSE LET w == CHOOSE x \in ws : TRUE IN gcw[w].cards_done + SumCardsDone(ws \ {w})

\* G1CollectedHeap::cleanUpCardTable(): "Set all cards back to clean."
cleanUpCardTable(ct) == [c \in Cards |-> clean_card_val]

\* DirtyCardQueueSet::merge_bufferlists(src): the completed buffers of src are
\* spliced onto this set
merge_bufferlists(q, src) == [c \in Cards |-> q[c] + src[c]]

\* cleanup_after_oops_into_collection_set_do with the into-CSet set cleared
\* before its buffers are merged
cleanup_queues_clear_first(failed) ==
  /\ dcq' = IF failed THEN merge_bufferlists(dcq, NoEntries) ELSE dcq
  /\ into_cset_dcq' = NoEntries

\* if (_g1->evacuation_failed()) _g1->dirty_card_queue_set().merge_bufferlists(&into_cset_dcqs);
\* _g1->into_cset_dirty_card_queue_set().clear();
cleanup_queues(failed) ==
  /\ dcq' = IF failed THEN merge_bufferlists(dcq, into_cset_dcq) ELSE dcq
  /\ into_cset_dcq' = NoEntries

\* cleanup_after_oops_into_collection_set_do without the call of cleanUpCardTable
cleanup_cards_kept(ct) == ct

\* _g1->cleanUpCardTable();
cleanup_cards(ct) == cleanUpCardTable(ct)

\* cleanup_after_oops_into_collection_set_do, run by the VM thread once every
\* worker has returned; failed is _g1->evacuation_failed()
cleanup_after_oops_into_collection_set_do(failed) ==
  /\ phase = "pause"
  /\ \A w \in Workers : gcw[w].pc = "finished"
  /\ phase' = "cleanup"
  /\ card' = cleanup_cards(card)
  /\ cleanup_queues(failed)
  /\ ps' = [ps EXCEPT !.total_cards_scanned = SumCardsDone(Workers),
                      !.card_before = card,
                      !.into_cset_before = into_cset_dcq,
                      !.dcq_before = dcq]
  /\ env' = [env EXCEPT !.evacuation_failed = failed,
                         !.merged = IF failed THEN { c \in Cards : into_cset_dcq[c] > 0 } ELSE {},
                         \* _g1->set_refine_cte_cl_concurrency(true);
                         !.refine_cte_cl_concurrency = TRUE]
  /\ UNCHANGED << rb, heapVars, slot, rs, hcc, use_cache, conc_refine_cards, mut, rf, gcw >>

\* The pause ends: after an evacuation failure the regions of the collection
\* set stay, as old regions; otherwise they are freed.  The mutators and the
\* refinement threads resume.
EndPause ==
  /\ phase = "cleanup"
  /\ phase' = "conc"
  /\ in_cset' = [r \in Regions |-> FALSE]
  /\ rtype' = [r \in Regions |-> IF ~in_cset[r] THEN rtype[r]
                                  ELSE IF env.evacuation_failed THEN "OLD" ELSE "FREE"]
  /\ top' = [r \in Regions |-> IF in_cset[r] /\ ~env.evacuation_failed
                                  THEN bottom(r) ELSE top[r]]
  /\ rs' = [r \in Regions |-> IF in_cset[r] /\ ~env.evacuation_failed THEN {} ELSE rs[r]]
  /\ gcw' = [w \in Workers |-> IdleGcw]
  /\ ps' = InitPs
  /\ UNCHANGED << rb, scan_top, published, slot, card, queueVars, conc_refine_cards,
                  mut, rf, env >>

Next ==
  \/ \E m \in Mutators, a \in Addrs, tgt \in Regions : MutStore(m, a, tgt)
  \/ \E m \in Mutators : MutDirty(m)
  \/ \E m \in Mutators : MutEnqueue(m)
  \/ \E t \in Refiners, c \in Cards : Refine_Take(t, c)
  \/ \E t \in Refiners : refine_card_concurrently(t)
  \/ \E r \in Regions : AllocYoung(r)
  \/ \E r \in Regions : MarkYoung(r)
  \/ \E r \in Regions : HumAlloc_Type(r)
  \/ \E r \in Regions, sz \in HumSizes : HumAlloc_Top(r, sz)
  \/ \E r \in Regions : HumAlloc_Publish(r)
  \/ \E r \in Regions : FreeRegion(r)

\* The concurrent phase: mutators, refinement threads, region recycling
Spec == Init /\ [][Next]_vars

\* ======================= properties of concurrent refinement (Spec)
\* The addresses of card c below the current top of its region
TrimmedRange(c) ==
  { a \in Addrs : a \div CardWords = c /\ a < top[a \div RegionWords] }
\* address a holds a reference into another region
CrossRef(a) == slot[a] # NoRef /\ slot[a] # a \div RegionWords
\* refine_card_concurrently(c) has returned on the path that counts the card
ReturnedProcessed(t) == rf[t].pc = "done" /\ rf[t].out = "processed"
\* a mutator is between its reference store and the end of its barrier on card c
BarrierPending(c) ==
  \E m \in Mutators : mut[m].pc # "idle" /\ mut[m].addr \div CardWords = c
\* a refinement thread holds card c and has not returned
RefinementInProgress(c) ==
  \E t \in Refiners : rf[t].pc \notin {"idle", "done"} /\ c \in {rf[t].card_ptr, rf[t].orig}
\* an old region that has not been freed or allocated since the start
StableOld(r) == rtype[r] = "OLD" /\ r \notin env.recycled
InHotCache(c) == \E i \in 1 .. Len(hcc) : hcc[i] = c

\* C1 as stated: when refine_card_concurrently(c) has returned on the path that
\* increments _conc_refine_cards, every cross-region reference in c's trimmed
\* range with an old or humongous target has c in the target's remembered set.
C1_AllRefsRemembered ==
  \A t \in Refiners : ReturnedProcessed(t) =>
    \A a \in TrimmedRange(rf[t].card_ptr) :
      (CrossRef(a) /\ rtype[slot[a]] \in {"OLD", "HUM"}) => rf[t].card_ptr \in rs[slot[a]]

\* C1 (amended): when refine_card_concurrently(c) has returned on the counting
\* path, c is in the remembered set of every region a reference read by the scan
\* pointed into; a cross-region reference of the trimmed range that is not
\* remembered was stored after the scan, and then its barrier is still pending,
\* or the card is DIRTY again, or another refinement of c is in progress.  With
\* a single completed store the card is CLEAN and the reference is remembered.
C1_ScannedRefsRemembered ==
  \A t \in Refiners : ReturnedProcessed(t) =>
    LET c == rf[t].card_ptr IN
    /\ \A tgt \in rf[t].found : c \in rs[tgt]
    /\ \A a \in TrimmedRange(c) :
         (CrossRef(a) /\ rtype[slot[a]] \in {"OLD", "HUM"}) =>
           \/ c \in rs[slot[a]]
           \/ BarrierPending(c)
           \/ card[c] = "DIRTY"
           \/ RefinementInProgress(c)
    /\ (env.stores = 1 /\ ~BarrierPending(c)) =>
         /\ card[c] = "CLEAN"
         /\ \A a \in TrimmedRange(c) : CrossRef(a) => c \in rs[slot[a]]

\* The single-write scenario: one reference from old region 0 (card 1) into old
\* region 1 has been refined.
C1_SingleWriteRefined ==
  \E t \in Refiners :
    /\ ReturnedProcessed(t) /\ rf[t].card_ptr = 1
    /\ env.stores = 1 /\ slot[2] = 1
    /\ card[1] = "CLEAN" /\ 1 \in rs[1] /\ conc_refine_cards = 1

\* C2: no update is lost when a mutator's barrier races with concurrent
\* refinement of the same card of a stable old region: whenever the barrier is
\* complete and no refinement of the card is in progress, the card is DIRTY and
\* held in the dirty-card queue or the hot card cache, or the card is in the
\* remembered set of the reference's target region.
C2_NoLostUpdate ==
  \A a \in Addrs :
    LET c == a \div CardWords IN
    ( /\ phase = "conc"
      /\ CrossRef(a)
      /\ StableOld(a \div RegionWords)
      /\ ~BarrierPending(c)
      /\ ~RefinementInProgress(c) )
    => \/ card[c] = "DIRTY" /\ (dcq[c] > 0 \/ InHotCache(c))
       \/ c \in rs[slot[a]]

\* A mutator stored a reference while the card was being refined, and the race
\* has settled with the card CLEAN and remembered.
C2_RaceSettled ==
  /\ env.raced
  /\ \E a \in Addrs :
       LET c == a \div CardWords IN
       /\ CrossRef(a) /\ StableOld(a \div RegionWords)
       /\ ~BarrierPending(c) /\ ~RefinementInProgress(c)
       /\ card[c] = "CLEAN" /\ c \in rs[slot[a]]
       /\ env.stores = MaxStores

\* C4 as stated: after a single dirtying of a card at most one refinement thread
\* cleans it (and goes on to iterate its objects).
C4_AtMostOneCleans ==
  \A c \in Cards : Cardinality(env.cleaners[c]) <= 1

\* C4 (amended): the DIRTY check and the CLEAN store are separate accesses: a
\* call that reads the card not DIRTY at entry returns without cleaning or
\* scanning anything, and a call cleans at most once; calls that both read
\* DIRTY before either clean is visible both clean and scan the card.
C4_CleanOnlyAfterDirtyRead ==
  \A t \in Refiners :
    /\ rf[t].cleans <= 1
    /\ (rf[t].pc \notin {"idle", "entry"} /\ ~rf[t].sawDirty) =>
         /\ rf[t].pc = "done" /\ rf[t].out = "notdirty"
         /\ rf[t].cleans = 0 /\ rf[t].found = {} /\ ~rf[t].sb

\* Two calls on the same card: one has cleaned it, the other read it not DIRTY
\* and returned.
C4_SecondCallReturns ==
  \E t1, t2 \in Refiners :
    /\ t1 # t2 /\ rf[t1].card_ptr = rf[t2].card_ptr
    /\ rf[t1].cleans = 1
    /\ rf[t2].pc = "done" /\ rf[t2].out = "notdirty"

\* C5: a call of refine_card_concurrently that scans a card has stored CLEAN to
\* it exactly once and has fenced (the store is visible) before the scan; a call
\* that read the card not DIRTY on entry cleans and scans nothing.
C5_CleanedOnceAndFenced ==
  \A t \in Refiners :
    /\ (rf[t].pc \in {"scan", "count", "redirty_check", "redirty_store", "redirty_enq"}
        \/ (rf[t].pc = "done" /\ rf[t].out \in {"processed", "redirtied", "redirty_skipped"}))
       => rf[t].cleans = 1 /\ rf[t].fenced /\ ~rf[t].sb
    /\ (rf[t].pc = "done" /\ rf[t].out \notin {"processed", "redirtied", "redirty_skipped"})
       => rf[t].cleans = 0 /\ ~rf[t].fenced /\ rf[t].found = {}

\* A call has scanned its card after one clean and a fence.
C5_ScannedAfterFence ==
  \E t \in Refiners :
    /\ rf[t].pc = "count" /\ rf[t].cleans = 1 /\ rf[t].fenced
    /\ rf[t].found # {}

\* C7 as stated: a failed (unparsable) attempt ends with exactly one entry for
\* the card added to the shared dirty-card queue since the clean, counting the
\* refinement threads' and the mutators' enqueues (once no enqueue is pending).
C7_ExactlyOneEnqueue ==
  \A t \in Refiners :
    ( /\ rf[t].pc = "done" /\ rf[t].out \in {"redirtied", "redirty_skipped"}
      /\ ~BarrierPending(rf[t].card_ptr)
      /\ \A u \in Refiners : rf[u].pc = "redirty_enq" => rf[u].card_ptr # rf[t].card_ptr )
      => rf[t].enq_since = 1

\* C7 (amended): in a failed attempt the refinement thread enqueues the card
\* once when it read it not DIRTY at the re-check and not at all when it read
\* DIRTY; at least one entry for the card has been enqueued since the clean or
\* is about to be (by the barrier or the refinement thread that dirtied it);
\* there are two when a barrier dirties and enqueues the card between the
\* re-check and the DIRTY store.
C7_ReenqueuedAtLeastOnce ==
  \A t \in Refiners :
    (rf[t].pc = "done" /\ rf[t].out \in {"redirtied", "redirty_skipped"}) =>
      /\ rf[t].enq = (IF rf[t].out = "redirtied" THEN 1 ELSE 0)
      /\ \/ rf[t].enq_since >= 1
         \/ \E m \in Mutators :
              mut[m].pc = "enqueue" /\ mut[m].addr \div CardWords = rf[t].card_ptr
         \/ \E u \in Refiners :
              rf[u].pc = "redirty_enq" /\ rf[u].card_ptr = rf[t].card_ptr

\* A failed attempt found the card re-dirtied and enqueued by a mutator and did
\* not enqueue it again.
C7_MutatorReenqueued ==
  \E t \in Refiners :
    /\ rf[t].pc = "done" /\ rf[t].out = "redirty_skipped"
    /\ rf[t].enq = 0 /\ rf[t].enq_since = 1

\* C13 as stated: a call of refine_card_concurrently(c) that follows a returned
\* call for c, with no dirtying of c in between or since, returns at the
\* not-DIRTY check (and so changes nothing), whatever the first call did.
C13_SecondCallReturnsAtCheck ==
  \A t \in Refiners :
    rf[t].pc = "done" /\ rf[t].again /\ rf[t].quiet /\ env.returned[rf[t].orig]
      => rf[t].out = "notdirty"

\* C13, amended: when a thread's earlier call has cleaned card c and c has not
\* been dirtied since, the thread's next call for c returns at the not-DIRTY
\* check and leaves the card table, the remembered sets, both queue sets, the
\* hot card cache and the count of refined cards as they were.
C13_CallAfterCleanChangesNothing ==
  [][ \A t \in Refiners :
        rf[t].pc = "entry" /\ t \in env.cleaners[rf[t].card_ptr] /\ rf'[t] # rf[t]
          => /\ rf'[t].pc = "done" /\ rf'[t].out = "notdirty"
             /\ card' = card /\ rs' = rs /\ dcq' = dcq /\ into_cset_dcq' = into_cset_dcq
             /\ hcc' = hcc /\ conc_refine_cards' = conc_refine_cards ]_vars

\* A thread that cleaned and scanned card c was handed c again, from a second
\* entry of the queue, and has returned at the not-DIRTY check.
C13_SecondCallAfterClean ==
  \E t \in Refiners :
    /\ rf[t].pc = "done" /\ rf[t].out = "notdirty" /\ rf[t].again
    /\ t \in env.cleaners[rf[t].card_ptr]
    /\ card[rf[t].card_ptr] = clean_card_val
    /\ rf[t].card_ptr \in UNION { rs[r] : r \in Regions }

NextCycle ==
  \/ Next
  \/ \E cs \in SUBSET Regions : StartPause(cs)
  \/ \E w \in Workers : oops_into_collection_set_do(w)
  \/ \E failed \in BOOLEAN : cleanup_after_oops_into_collection_set_do(failed)
  \/ EndPause

\* The concurrent phase followed by an evacuation pause
SpecCycle == Init /\ [][NextCycle]_vars

\* The same with one store left to the mutators
InitOneStore == InitStores(MaxStores - 1)
SpecCycleOneStore == InitOneStore /\ [][NextCycle]_vars

\* ================= properties of the evacuation pause (SpecCycle)
RegionOfCard(c) == c \div CardsPerRegion
\* the addresses of card c below the scan_top of its region
ScanRange(c) ==
  { a \in Addrs : a \div CardWords = c /\ a < scan_top[a \div RegionWords] }
\* address a of a never-recycled old region outside the collection set holds a
\* reference into old or humongous region tgt, and the write barrier has
\* dirtied a's card
BarrierRef(a, tgt) ==
  /\ slot[a] = tgt /\ tgt # a \div RegionWords
  /\ StableOld(a \div RegionWords) /\ ~in_cset[a \div RegionWords]
  /\ rtype[tgt] \in {"OLD", "HUM"}
  /\ (a \div CardWords) \in env.barrier_cards
\* worker w is iterating over the remembered set of collection-set region r
ScanningRS(w, r) ==
  /\ gcw[w].pc \in {"dhr_loop", "dhr_card", "sc_check", "sc_scan", "dhr_end"}
  /\ CSetRegionFor(w, gcw[w].visited) = r
AllWorkersFinished == phase = "pause" /\ \A w \in Workers : gcw[w].pc = "finished"

\* C3 as stated: when a pause whose collection set holds tgt's region scans
\* tgt's remembered set, the card of every barrier-dirtied reference into tgt
\* from another old or humongous region has been inserted into it.
C3_InsertedBeforeScan ==
  phase = "pause" =>
    \A w \in Workers, tgt \in Regions : (in_cset[tgt] /\ ScanningRS(w, tgt)) =>
      \A a \in Addrs : BarrierRef(a, tgt) => (a \div CardWords) \in rs[tgt]

\* C3 (amended): when the workers of a pause have finished updateRS and scanRS,
\* the card of every barrier-dirtied reference from a stable old region outside
\* the collection set into another old or humongous region is in the target's
\* remembered set (inserted by concurrent or by in-pause refinement) or, when
\* the target is in the collection set, the reference has been handed to the
\* evacuation closure instead; a card still queued at the start of the pause
\* is not inserted into a collection-set region's remembered set at all.
C3_RememberedOrPushed ==
  AllWorkersFinished =>
    \A a \in Addrs, tgt \in Regions : BarrierRef(a, tgt) =>
      \/ (a \div CardWords) \in rs[tgt]
      \/ in_cset[tgt] /\ << a \div CardWords, tgt >> \in ps.pushed

\* A reference into the collection set whose card was still queued when the
\* pause began: pushed by in-pause refinement and not in the remembered set.
C3_PushedNotInserted ==
  /\ AllWorkersFinished
  /\ \E a \in Addrs, tgt \in Regions :
       /\ BarrierRef(a, tgt) /\ in_cset[tgt]
       /\ (a \div CardWords) \notin rs[tgt]
       /\ << a \div CardWords, tgt >> \in ps.pushed

\* C6: every DIRTY->CLEAN store of refinement, in refine_card_concurrently and
\* in refine_card_during_gc, is followed by a full fence before the objects of
\* the card are read.
C6_FenceBeforeScan ==
  /\ \A t \in Refiners : rf[t].pc = "scan" => rf[t].fenced /\ ~rf[t].sb
  /\ \A w \in Workers : gcw[w].pc = "rdg_scan" => gcw[w].fenced /\ ~gcw[w].sb

\* C8: a card whose region is not old or humongous at the time of the insertion
\* is never added to a remembered set, by refine_card_concurrently or by
\* refine_card_during_gc.
C8_OnlyOldOrHumCardsInserted ==
  [][ \A x \in Regions : \A c \in rs'[x] \ rs[x] :
        rtype[RegionOfCard(c)] \in {"OLD", "HUM"} ]_vars

\* A region was freed and re-allocated young while its card was queued; the
\* refinement thread dropped the card.
C8_RecycledYoungCardDropped ==
  \E t \in Refiners :
    /\ rf[t].pc = "done" /\ rf[t].out = "nottype"
    /\ rtype[RegionOfCard(rf[t].card_ptr)] = "YOUNG"
    /\ env.frees = 1
    /\ \A x \in Regions : rf[t].card_ptr \notin rs[x]

\* C9: during a pause no card of a collection-set region is added to a
\* remembered set: refine_card_during_gc on such a card returns false without
\* cleaning and without scanning it.
C9_CSetCardsNotRefined ==
  [][ phase = "pause" =>
        /\ \A x \in Regions : \A c \in rs'[x] \ rs[x] : ~in_cset[RegionOfCard(c)]
        /\ \A w \in Workers :
             ( /\ gcw[w].pc = "rdg_entry" /\ gcw'[w].pc # "rdg_entry"
               /\ in_cset[RegionOfCard(gcw[w].card_ptr)] )
             => /\ gcw'[w].pc = "rdg_ret" /\ ~gcw'[w].has_refs /\ ~gcw'[w].sb
                /\ card' = card /\ rs' = rs /\ ps' = ps
        /\ \A w \in Workers :
             gcw'[w].pc \in {"rdg_clean", "rdg_scan"}
               => ~in_cset[RegionOfCard(gcw'[w].card_ptr)] ]_vars

\* refine_card_during_gc has returned on a DIRTY card of a collection-set region
C9_CSetCardReturned ==
  \E w \in Workers :
    /\ gcw[w].pc = "rdg_ret" /\ gcw[w].out = "incset" /\ ~gcw[w].has_refs
    /\ card[gcw[w].card_ptr] = "DIRTY"
    /\ in_cset[RegionOfCard(gcw[w].card_ptr)]

\* C10: during the pause updateRS never changes the remembered set of a
\* collection-set region: a reference into the collection set found by in-pause
\* refinement is recorded (has_refs_into_cset, pushed) and not inserted.
C10_NoCSetRSUpdate ==
  [][ phase = "pause" =>
        /\ \A x \in Regions : in_cset[x] => rs'[x] = rs[x]
        /\ \A w \in Workers :
             (gcw[w].pc = "rdg_scan" /\ gcw'[w].pc = "rdg_ret") =>
               LET c == gcw[w].card_ptr
                   into == { slot[a] : a \in { b \in ScanRange(c) :
                               slot[b] # NoRef /\ slot[b] # b \div RegionWords
                               /\ in_cset[slot[b]] } }
               IN /\ gcw'[w].has_refs = (into # {})
                  /\ \A tgt \in into : << c, tgt >> \in ps'.pushed ]_vars

\* In-pause refinement found a reference into the collection set: recorded and
\* pushed, and the card is not in the collection-set region's remembered set.
C10_RecordedNotInserted ==
  \E w \in Workers, tgt \in Regions :
    /\ gcw[w].pc = "rdg_ret" /\ gcw[w].has_refs
    /\ in_cset[tgt]
    /\ << gcw[w].card_ptr, tgt >> \in ps.pushed
    /\ gcw[w].card_ptr \notin rs[tgt]

\* ------------------------------------------- one pause, from its start
MaxBlockSize == 2
YoungRegion == NRegions - 1

\* The state right after prepare_for_oops_into_collection_set_do: the last
\* region is young and in the collection set, with or without the old region
\* next to it; the remembered sets of the collection set name cards of the
\* regions below them; at most one card is DIRTY, logged in the dirty-card
\* queue set or held by the hot card cache, and holds a reference into the
\* young region.
InitPause ==
  \E cs \in { {YoungRegion}, {YoungRegion - 1, YoungRegion} },
     bs \in 0 .. MaxBlockSize,
     logged \in { "none", "queue", "cache" } :
    /\ phase = "pause"
    /\ rtype = [r \in Regions |-> IF r = YoungRegion THEN "YOUNG" ELSE "OLD"]
    /\ top = [r \in Regions |-> IF r = YoungRegion THEN end_of(r) ELSE end_of(r) - 1]
    /\ scan_top = top
    /\ published = [r \in Regions |-> TRUE]
    /\ in_cset = [r \in Regions |-> r \in cs]
    /\ slot = [a \in Addrs |-> IF a = 0 /\ logged # "none" THEN YoungRegion ELSE NoRef]
    /\ card = [c \in Cards |-> IF c \in CardsOf(YoungRegion) THEN g1_young_card_val
                               ELSE IF c = 0 /\ logged # "none" THEN dirty_card_val
                               ELSE clean_card_val]
    /\ rs \in [Regions -> SUBSET Cards]
    /\ \A r \in Regions :
          IF r \in cs THEN rs[r] \subseteq { c \in Cards : c \div CardsPerRegion < r }
          ELSE rs[r] = {}
    /\ dcq = [c \in Cards |-> IF c = 0 /\ logged = "queue" THEN 1 ELSE 0]
    /\ into_cset_dcq = NoEntries
    /\ hcc = IF logged = "cache" THEN << 0 >> ELSE << >>
    /\ use_cache = TRUE
    /\ conc_refine_cards = 0
    /\ mut = [m \in Mutators |-> IdleMut]
    /\ rf = [t \in Refiners |-> IdleRf]
    /\ gcw = [w \in Workers |-> IdleGcw]
    /\ ps = InitPs
    /\ rb = IdleRb
    /\ env = [stores |-> MaxStores, allocs |-> MaxAllocs, frees |-> MaxFrees,
              pauses |-> MaxPauses, G1RSetScanBlockSize |-> bs,
              recycled |-> {}, barrier_cards |-> {}, raced |-> FALSE,
              cleaners |-> [c \in Cards |-> {}],
              returned |-> [c \in Cards |-> FALSE],
              evacuation_failed |-> FALSE, merged |-> {}, recovering |-> {},
              refine_cte_cl_concurrency |-> FALSE, verifies |-> MaxVerifies,
              use_hot_card_cache |-> TRUE]

NextPause ==
  \/ \E w \in Workers : oops_into_collection_set_do(w)
  \/ \E failed \in BOOLEAN : cleanup_after_oops_into_collection_set_do(failed)

\* One evacuation pause: the workers' updateRS and scanRS, then the cleanup
SpecPause == InitPause /\ [][NextPause]_vars

\* The start of a pause as InitPause has it, with the DIRTY card that is logged
\* in a completed buffer or held by the hot card cache being the first card of
\* either old region and its reference pointing into any other region, in the
\* collection set or not.
InitPauseRefs ==
  \E cs \in { {YoungRegion}, {YoungRegion - 1, YoungRegion} },
     src \in { 0, index_for(bottom(YoungRegion - 1)) },
     tgt \in Regions,
     logged \in { "queue", "cache" } :
    /\ tgt # heap_region_containing(addr_for(src))
    /\ phase = "pause"
    /\ rtype = [r \in Regions |-> IF r = YoungRegion THEN "YOUNG" ELSE "OLD"]
    /\ top = [r \in Regions |-> IF r = YoungRegion THEN end_of(r) ELSE end_of(r) - 1]
    /\ scan_top = top
    /\ published = [r \in Regions |-> TRUE]
    /\ in_cset = [r \in Regions |-> r \in cs]
    /\ slot = [a \in Addrs |-> IF a = addr_for(src) THEN tgt ELSE NoRef]
    /\ card = [c \in Cards |-> IF c \in CardsOf(YoungRegion) THEN g1_young_card_val
                               ELSE IF c = src THEN dirty_card_val
                               ELSE clean_card_val]
    /\ rs \in [Regions -> SUBSET Cards]
    /\ \A r \in Regions :
          IF r \in cs THEN rs[r] \subseteq { c \in Cards : c \div CardsPerRegion < r }
          ELSE rs[r] = {}
    /\ dcq = [c \in Cards |-> IF c = src /\ logged = "queue" THEN 1 ELSE 0]
    /\ into_cset_dcq = NoEntries
    /\ hcc = IF logged = "cache" THEN << src >> ELSE << >>
    /\ use_cache = TRUE
    /\ conc_refine_cards = 0
    /\ mut = [m \in Mutators |-> IdleMut]
    /\ rf = [t \in Refiners |-> IdleRf]
    /\ gcw = [w \in Workers |-> IdleGcw]
    /\ ps = InitPs
    /\ rb = IdleRb
    /\ env = [stores |-> MaxStores, allocs |-> MaxAllocs, frees |-> MaxFrees,
              pauses |-> MaxPauses, G1RSetScanBlockSize |-> 1,
              recycled |-> {}, barrier_cards |-> {src}, raced |-> FALSE,
              cleaners |-> [c \in Cards |-> {}],
              returned |-> [c \in Cards |-> FALSE],
              evacuation_failed |-> FALSE, merged |-> {}, recovering |-> {},
              refine_cte_cl_concurrency |-> FALSE, verifies |-> MaxVerifies,
              use_hot_card_cache |-> TRUE]

\* One evacuation pause over such a logged reference
SpecPauseRefs == InitPauseRefs /\ [][NextPause]_vars

\* ====================== properties of scanRS within one pause (SpecPause)
\* The scans of card c made in the first pass (try_claimed = FALSE) of scanRS
PhaseAScans(c) == { e \in ps.scan_log : e[1] = c /\ ~e[3] }

C14_BlocksPartitionIndices ==
  \A r \in Regions :
    /\ \A i \in DOMAIN ps.handled[r] : Len(ps.handled[r][i]) <= 1
    /\ (phase = "pause" /\ in_cset[r] /\ \A w \in Workers : gcw[w].pc = "finished")
          => /\ \A i \in 0 .. (Cardinality(rs[r]) - 1) : Len(ps.handled[r][i]) = 1
             /\ \A i \in DOMAIN ps.handled[r] :
                   i >= Cardinality(rs[r]) => ps.handled[r][i] = << >>
             /\ ps.iter_state[r] = "Complete"

\* A remembered set of four cards was drained in blocks of two by two workers,
\* one block each, one of them in its second pass; all workers have returned.
C14_TwoWorkersSplitBlocks ==
  \E r \in Regions :
    /\ in_cset[r] /\ Cardinality(rs[r]) = 4
    /\ env.G1RSetScanBlockSize = 2
    /\ \A w \in Workers : gcw[w].pc = "finished"
    /\ \A i \in 0 .. 3 : Len(ps.handled[r][i]) = 1
    /\ ps.handled[r][0] = ps.handled[r][1]
    /\ ps.handled[r][2] = ps.handled[r][3]
    /\ ps.handled[r][0] # ps.handled[r][2]
    /\ Cardinality(ps.claimants[r]) = 1

\* Worker w is inside doHeapRegion for region r and holds a card of r's
\* remembered set
HoldsCardOf(w, r) ==
  /\ gcw[w].pc \in {"dhr_card", "sc_check", "sc_scan"}
  /\ gcw[w].visited < Cardinality({ x \in Regions : in_cset[x] })
  /\ CurRegion(w) = r

\* C15 as stated: once the iterator of a collection-set region's remembered
\* set is marked complete, no worker is scanning a card of that remembered set
\* any more, also no Phase B worker that entered before.
C15_NoScanAfterComplete ==
  \A r \in Regions : \A w \in Workers :
    ps.iter_state[r] = "Complete" => ~HoldsCardOf(w, r)

\* C15, amended: once the iterator is marked complete, no worker claims a
\* further block that holds cards of that remembered set; a worker still
\* scanning its cards is a worker of the second pass (Phase B) finishing a
\* block it claimed before.
C15_NoBlockClaimedAfterComplete ==
  [][ \A r \in Regions :
        /\ ( /\ ps.iter_state[r] = "Complete"
             /\ ps'.iter_claimed[r] > ps.iter_claimed[r] )
              => ps.iter_claimed[r] >= Cardinality(rs[r])
        /\ \A w \in Workers :
              ps'.iter_state[r] = "Complete" /\ HoldsCardOf(w, r)'
                => gcw'[w].try_claimed ]_vars

\* The claimant has marked the iterator complete while a worker of the second
\* pass is still about to scan a card of a block it claimed.
C15_PhaseBStillScanning ==
  \E r \in Regions : \E w \in Workers :
    /\ ps.iter_state[r] = "Complete"
    /\ HoldsCardOf(w, r) /\ gcw[w].pc = "sc_scan" /\ gcw[w].try_claimed
    /\ ps.scans[gcw[w].card_index] = 0

\* C16: in a pause every collection-set region is claimed through claim_iter()
\* by exactly one worker, in that worker's first pass; the strong code roots of
\* the region are scanned once, by that worker, in the step that ends its own
\* drain of the remembered set and marks the iterator complete, the iterator
\* not being complete before; workers of the second pass change neither.
C16_OneClaimantScansCodeRoots ==
  [][ \A r \in Regions :
        /\ Cardinality(ps'.claimants[r]) <= 1
        /\ ps'.code_roots[r] <= 1
        /\ ps'.iter_state[r] = "Complete" <=> ps'.code_roots[r] = 1
        /\ ( \/ ps'.code_roots[r] # ps.code_roots[r]
             \/ ps'.iter_state[r] # ps.iter_state[r]
             \/ ps'.claimants[r] # ps.claimants[r] ) /\ phase' = "pause" /\ phase = "pause"
              => \E w \in Workers :
                   /\ gcw'[w] # gcw[w]
                   /\ ~gcw[w].try_claimed
                   /\ w \in ps'.claimants[r]
                   /\ in_cset[r]
                   /\ ps'.code_roots[r] # ps.code_roots[r]
                        => /\ gcw[w].pc = "dhr_end"
                           /\ gcw[w].current_card >= Cardinality(rs[r])
                           /\ ps.iter_state[r] = "Claimed"
                           /\ ps'.iter_state[r] = "Complete"
        /\ (phase' = "pause" /\ in_cset[r] /\ \A w \in Workers : gcw'[w].pc = "finished")
              => Cardinality(ps'.claimants[r]) = 1 /\ ps'.code_roots[r] = 1 ]_vars

\* Two collection-set regions were claimed by different workers, each scanned
\* the code roots of its own region once, and a worker drained part of the
\* remembered set of the region it had not claimed.
C16_TwoRegionsTwoClaimants ==
  \E r1, r2 \in Regions :
    /\ r1 # r2 /\ in_cset[r1] /\ in_cset[r2]
    /\ \A w \in Workers : gcw[w].pc = "finished"
    /\ Cardinality(ps.claimants[r1]) = 1 /\ Cardinality(ps.claimants[r2]) = 1
    /\ ps.claimants[r1] # ps.claimants[r2]
    /\ ps.code_roots[r1] = 1 /\ ps.code_roots[r2] = 1
    /\ \E i \in DOMAIN ps.handled[r1] :
          /\ ps.handled[r1][i] # << >>
          /\ ps.handled[r1][i][1] \notin ps.claimants[r1]

C18_IntoCSetBuffersMergedOrDropped ==
  [][ phase = "pause" /\ phase' = "cleanup"
        => /\ into_cset_dcq' = [c \in Cards |-> 0]
           /\ env'.evacuation_failed
                => \A c \in Cards : dcq'[c] = dcq[c] + into_cset_dcq[c]
           /\ ~env'.evacuation_failed => dcq' = dcq ]_vars

\* The evacuation failed and cleanup has moved a card that in-pause refinement
\* had recorded into the dirty-card queue set.
C18_FailedEvacuationMerged ==
  /\ phase = "cleanup" /\ env.evacuation_failed
  /\ into_cset_dcq = [c \in Cards |-> 0]
  /\ \E c \in Cards : /\ ps.into_cset_before[c] > 0
                       /\ dcq[c] = ps.dcq_before[c] + ps.into_cset_before[c]

MaxChunkWords == 3
MaxRefFields == 1

Max(a, b) == IF a >= b THEN a ELSE b

\* MemRegion: <<start, end>>; the empty MemRegion() is <<0, 0>>
MemRegion(start, word_size) == << start, start + word_size >>
mr_start(mr) == mr[1]
mr_end(mr) == mr[2]
word_size(mr) == mr[2] - mr[1]
byte_size(mr) == word_size(mr) * HeapWordSize
is_empty(mr) == word_size(mr) = 0
\* MemRegion::contains(const MemRegion mr2)
contains(mr, mr2) == mr[1] <= mr2[1] /\ mr[2] >= mr2[2]
\* MemRegion::intersection
intersection(mr, mr2) ==
  LET res_start == Max(mr[1], mr2[1])
      res_end == Min(mr[2], mr2[2]) IN
  IF res_start < res_end THEN << res_start, res_end >> ELSE << 0, 0 >>

\* oop(obj)->size(), oop(obj)->is_objArray()
obj_size(obj) == rb.size[obj]
is_objArray(obj) == obj \in rb.objArrays
\* CMBitMap::isMarked
isMarked(addr) == addr \in rb.bitmap
\* CMBitMap::getNextMarkedWordAddress(addr, limit): the first marked address in
\* [addr, limit), limit when there is none
getNextMarkedWordAddress(addr, limit) ==
  LET m == { a \in rb.bitmap : addr <= a /\ a < limit } IN
  IF m = {} THEN limit ELSE CHOOSE a \in m : \A b \in m : a <= b
\* HeapRegion::block_start(addr): the start of the object that holds addr
block_start(addr) ==
  CHOOSE s \in Addrs : rb.size[s] > 0 /\ s <= addr /\ addr < s + rb.size[s]

\* obj->oop_iterate(&_update_cl): the words of obj the closure is applied to
oop_iterate(obj) == { a \in Addrs : obj <= a /\ a < obj + obj_size(obj) }
\* obj->oop_iterate(&_update_cl, mr): those of them within mr
oop_iterate_mr(obj, mr) == { a \in oop_iterate(obj) : mr[1] <= a /\ a < mr[2] }

\* G1RebuildRemSetClosure::do_oop applied to the words of fs: the cards added
\* to the remembered set of region tgt
RebuildAdds(fs, tgt) ==
  { index_for(a) : a \in { b \in fs : /\ slot[b] = tgt
                                      /\ heap_region_containing(b) # tgt
                                      /\ is_old_or_humongous(tgt) } }

\* scan_for_references iterating every object whole, object arrays included
scan_for_references_whole(obj, mr) ==
  [fields |-> oop_iterate(obj), words |-> obj_size(obj)]

\* scan_for_references(obj, mr): the words the closure is applied to and the
\* number of words returned
scan_for_references(obj, mr) ==
  IF ~is_objArray(obj) \/ contains(mr, MemRegion(obj, obj_size(obj)))
  THEN [fields |-> oop_iterate(obj), words |-> obj_size(obj)]
  ELSE [fields |-> oop_iterate_mr(obj, mr),
        words |-> word_size(intersection(mr, MemRegion(obj, obj_size(obj))))]

\* liveness by the bitmap alone
is_humongous_live_marked_only(humongous_obj, tams, tars) == isMarked(humongous_obj)
\* is_humongous_live(humongous_obj, bitmap, tams, tars)
is_humongous_live(humongous_obj, tams, tars) == isMarked(humongous_obj) \/ tars > tams

\* LiveObjIterator: _current is passed along
is_below_tams(current, tams) == current < tams
is_live(current, tams) == ~is_below_tams(current, tams) \/ isMarked(current)
bitmap_limit(tams, mr) == Min(tams, mr_end(mr))
has_next(current, mr) == current < mr_end(mr)
move_if_below_tams(current, tams, mr) ==
  IF is_below_tams(current, tams) /\ has_next(current, mr)
  THEN getNextMarkedWordAddress(current, bitmap_limit(tams, mr))
  ELSE current
\* the constructor without the step over a non-array object that began in
\* the previous chunk
LiveObjIterator_no_step(tams, mr, first_oop_into_mr) ==
  IF is_live(first_oop_into_mr, tams)
  THEN first_oop_into_mr
  ELSE getNextMarkedWordAddress(first_oop_into_mr, bitmap_limit(tams, mr))
\* the constructor: _current after it
LiveObjIterator(tams, mr, first_oop_into_mr) ==
  IF is_live(first_oop_into_mr, tams)
  THEN IF first_oop_into_mr < mr_start(mr) /\ ~is_objArray(first_oop_into_mr)
       THEN move_if_below_tams(first_oop_into_mr + obj_size(first_oop_into_mr), tams, mr)
       ELSE first_oop_into_mr
  ELSE getNextMarkedWordAddress(first_oop_into_mr, bitmap_limit(tams, mr))
move_to_next(current, tams, mr) ==
  move_if_below_tams(current + obj_size(current), tams, mr)

\* one more application of the closure to each word of fs
AddVisits(f, fs) == [a \in Addrs |-> f[a] + IF a \in fs THEN 1 ELSE 0]

\* for (LiveObjIterator it(...); it.has_next(); it.move_to_next()) { ... } from
\* the position current of the iterator; acc: marked_words and the history
RECURSIVE live_obj_loop(_, _, _, _)
live_obj_loop(current, tams, mr, acc) ==
  IF ~has_next(current, mr) THEN acc
  ELSE LET obj == current
           scanned == scan_for_references(obj, mr)
           below == obj < tams IN
       live_obj_loop(move_to_next(current, tams, mr), tams, mr,
         [marked_words |-> acc.marked_words + IF below THEN scanned.words ELSE 0,
          fields |-> AddVisits(acc.fields, scanned.fields),
          counted |-> IF below THEN [acc.counted EXCEPT ![obj] = @ + scanned.words]
                      ELSE acc.counted])

\* rebuild_rem_set_in_region(bitmap, top_at_mark_start, top_at_rebuild_start, hr, mr):
\* the bytes it returns and the history after it
rebuild_rem_set_in_region(top_at_mark_start, top_at_rebuild_start, hr, mr) ==
  IF rtype[hr] = "HUM"
  THEN LET humongous_obj == bottom(rb.humongous_start_region[hr])
           below == top_at_mark_start # bottom(hr) IN
       IF is_humongous_live(humongous_obj, top_at_mark_start, top_at_rebuild_start)
       THEN [marked_bytes |-> IF below THEN byte_size(mr) ELSE 0,
             fields |-> AddVisits(rb.fields, oop_iterate_mr(humongous_obj, mr)),
             counted |-> IF below THEN [rb.counted EXCEPT ![humongous_obj] = @ + word_size(mr)]
                         ELSE rb.counted,
             iterated |-> Append(rb.iterated, << hr, mr_start(mr), mr_end(mr) >>)]
       ELSE [marked_bytes |-> 0, fields |-> rb.fields, counted |-> rb.counted,
             iterated |-> rb.iterated]
  ELSE LET acc == live_obj_loop(LiveObjIterator(top_at_mark_start, mr,
                                                block_start(mr_start(mr))),
                                top_at_mark_start, mr,
                                [marked_words |-> 0, fields |-> rb.fields,
                                 counted |-> rb.counted]) IN
       [marked_bytes |-> acc.marked_words * HeapWordSize, fields |-> acc.fields,
        counted |-> acc.counted, iterated |-> rb.iterated]

\* what the rebuild leaves alone, the remembered sets apart
rebuildOtherVars == << phase, heapVars, slot, card, queueVars, conc_refine_cards,
                       mut, rf, gcw, ps, env >>

\* heap_region_par_iterate_from_worker_offset hands the next region to
\* doHeapRegion: if (_cm->has_aborted()) return true; ... the locals
RB_Entry ==
  /\ rb.pc = "iterate" /\ rb.todo # << >>
  /\ LET hr == Head(rb.todo) IN
     IF rb.has_aborted
     THEN rb' = [rb EXCEPT !.pc = "done", !.todo = << >>, !.hr = hr,
                           !.result[hr] = "aborted"]
     ELSE rb' = [rb EXCEPT !.pc = "loop", !.todo = Tail(@), !.hr = hr,
                           !.total_marked_bytes = 0,
                           !.top_at_mark_start = rb.next_top_at_mark_start[hr],
                           !.cur = bottom(hr)]
  /\ UNCHANGED << rs, rebuildOtherVars >>

\* one turn of while (cur < hr->end()) up to do_yield_check()
RB_Chunk ==
  /\ rb.pc = "loop"
  /\ LET hr == rb.hr
         chunk_size_in_words == rb.G1RebuildRemSetChunkSize \div HeapWordSize
         top_at_rebuild_start == rb.top_at_rebuild_start[hr]
         next_chunk == intersection(<< bottom(hr), top_at_rebuild_start >>,
                                    MemRegion(rb.cur, chunk_size_in_words))
         res == rebuild_rem_set_in_region(rb.top_at_mark_start, top_at_rebuild_start,
                                          hr, next_chunk)
         applied == { a \in Addrs : res.fields[a] > rb.fields[a] } IN
     IF ~(rb.cur < rb.end[hr])
     THEN /\ rb' = [rb EXCEPT !.pc = "end"]
          /\ rs' = rs
     ELSE IF top_at_rebuild_start = NoAddr
     THEN \* return false
          /\ rb' = [rb EXCEPT !.pc = "iterate", !.result[hr] = "reclaimed"]
          /\ rs' = rs
     ELSE IF is_empty(next_chunk)
     THEN \* break
          /\ rb' = [rb EXCEPT !.pc = "end"]
          /\ rs' = rs
     ELSE /\ rb' = [rb EXCEPT !.pc = "yield",
                              !.total_marked_bytes =
                                 IF res.marked_bytes > 0 THEN @ + res.marked_bytes ELSE @,
                              !.cur = @ + chunk_size_in_words,
                              !.fields = res.fields,
                              !.counted = res.counted,
                              !.iterated = res.iterated]
          /\ rs' = [x \in Regions |-> rs[x] \cup RebuildAdds(applied, x)]
  /\ UNCHANGED rebuildOtherVars

\* RB_Yield going on with the next chunk without a look at has_aborted()
RB_Yield_unchecked ==
  /\ rb.pc = "yield"
  /\ rb' = [rb EXCEPT !.pc = "loop"]
  /\ UNCHANGED << rs, rebuildOtherVars >>

\* _cm->do_yield_check(); if (_cm->has_aborted()) return true;
RB_Yield ==
  /\ rb.pc = "yield"
  /\ IF rb.has_aborted
     THEN rb' = [rb EXCEPT !.pc = "done", !.todo = << >>, !.result[rb.hr] = "aborted"]
     ELSE rb' = [rb EXCEPT !.pc = "loop"]
  /\ UNCHANGED << rs, rebuildOtherVars >>

\* after the loop: return _cm->has_aborted();
RB_Return ==
  /\ rb.pc = "end"
  /\ rb' = [rb EXCEPT !.pc = IF rb.has_aborted THEN "done" ELSE "iterate",
                      !.todo = IF rb.has_aborted THEN << >> ELSE @,
                      !.result[rb.hr] = "completed",
                      !.total[rb.hr] = rb.total_marked_bytes]
  /\ UNCHANGED << rs, rebuildOtherVars >>

\* the iteration has handed out every region
RB_Done ==
  /\ rb.pc = "iterate" /\ rb.todo = << >>
  /\ rb' = [rb EXCEPT !.pc = "done"]
  /\ UNCHANGED << rs, rebuildOtherVars >>

\* the marking cycle aborts
RB_Abort ==
  /\ rb.pc \in { "iterate", "yield", "end" }
  /\ ~rb.has_aborted
  /\ rb' = [rb EXCEPT !.has_aborted = TRUE]
  /\ UNCHANGED << rs, rebuildOtherVars >>

\* a pause at a yield point reclaims the humongous object eagerly: the
\* top_at_rebuild_start of its regions becomes NULL
RB_EagerReclaim ==
  /\ rb.pc \in { "iterate", "yield" }
  /\ \E r \in Regions : rtype[r] = "HUM" /\ rb.top_at_rebuild_start[r] # NoAddr
  /\ rb' = [rb EXCEPT !.top_at_rebuild_start =
                         [r \in Regions |-> IF rtype[r] = "HUM" THEN NoAddr ELSE @[r]]]
  /\ UNCHANGED << rs, rebuildOtherVars >>

\* the sum of f over the set S
RECURSIVE SumOver(_, _)
SumOver(S, f) ==
  IF S = {} THEN 0 ELSE LET x == CHOOSE y \in S : TRUE IN f[x] + SumOver(S \ {x}, f)

\* The heap when the rebuild starts, marking having completed.  Either region 0
\* is an old region filled up to tp with objects (the set S of their starts),
\* some of them object arrays, those below TAMS marked or not, or regions 0
\* and 1 hold one humongous object of sz words that starts at the bottom of
\* region 0 and continues into region 1.  The start region of a humongous
\* object ends with its own words or spans the whole object (spanning), and
\* the continuation region has a TARS of its own or none.  At most
\* MaxRefFields words of the objects hold a reference, into the last region.
InitRebuildHeap(kind, tp, tops, refs) ==
  /\ phase = "conc"
  /\ rtype = [r \in Regions |-> IF r \in {0, 1} THEN kind ELSE "OLD"]
  /\ top = [r \in Regions |-> IF r \in DOMAIN tops THEN tops[r] ELSE end_of(r) - 1]
  /\ scan_top = top
  /\ published = [r \in Regions |-> TRUE]
  /\ in_cset = [r \in Regions |-> FALSE]
  /\ slot = [a \in Addrs |-> IF a \in refs THEN NRegions - 1 ELSE NoRef]
  /\ card = [c \in Cards |-> clean_card_val]
  /\ rs = [r \in Regions |-> {}]
  /\ dcq = NoEntries
  /\ into_cset_dcq = NoEntries
  /\ hcc = << >>
  /\ use_cache = TRUE
  /\ conc_refine_cards = 0
  /\ mut = [m \in Mutators |-> IdleMut]
  /\ rf = [t \in Refiners |-> IdleRf]
  /\ gcw = [w \in Workers |-> IdleGcw]
  /\ ps = InitPs
  /\ env = [stores |-> MaxStores, allocs |-> MaxAllocs, frees |-> MaxFrees,
            pauses |-> MaxPauses, G1RSetScanBlockSize |-> 1,
            recycled |-> {}, barrier_cards |-> {}, raced |-> FALSE,
            cleaners |-> [c \in Cards |-> {}],
            returned |-> [c \in Cards |-> FALSE],
            evacuation_failed |-> FALSE, merged |-> {}, recovering |-> {},
            refine_cte_cl_concurrency |-> TRUE, verifies |-> MaxVerifies,
            use_hot_card_cache |-> TRUE]

InitRebuildOld ==
  \E tp \in 1 .. RegionWords, words \in 1 .. MaxChunkWords :
  \E later \in SUBSET (1 .. (tp - 1)) :
  LET S == {0} \cup later
      bounds == S \cup {tp}
      size == [a \in Addrs |-> IF a \in S
                                 THEN (CHOOSE b \in bounds : b > a /\ \A x \in bounds : x > a => b <= x) - a
                                 ELSE 0] IN
  \E arrays \in SUBSET S, tams \in bounds, refs \in SUBSET (0 .. (tp - 1)) :
  \E tars \in { b \in bounds : b >= tams /\ b > 0 },
     marked \in SUBSET { x \in S : x < tams } :
    /\ Cardinality(refs) <= MaxRefFields
    /\ InitRebuildHeap("OLD", tp, [r \in {0} |-> tp], refs)
    /\ rb = [IdleRb EXCEPT !.pc = "iterate", !.todo = << 0 >>,
                           !.G1RebuildRemSetChunkSize = words * HeapWordSize,
                           !.size = size, !.objArrays = arrays, !.bitmap = marked,
                           !.next_top_at_mark_start[0] = tams,
                           !.top_at_rebuild_start[0] = tars,
                           !.next_marked_bytes[0] = SumOver(marked, size) * HeapWordSize]

InitRebuildHumongous ==
  \E sz \in (RegionWords + 1) .. (2 * RegionWords), words \in 1 .. MaxChunkWords,
     spanning \in BOOLEAN, during_mark \in BOOLEAN, marked \in BOOLEAN,
     array \in BOOLEAN, tracked \in BOOLEAN :
  \E refs \in SUBSET (0 .. (sz - 1)) :
  LET tops == [r \in {0, 1} |-> IF r = 0 /\ ~spanning THEN end_of(0) ELSE sz]
      tams == [r \in Regions |-> IF r \in {0, 1} /\ ~during_mark THEN tops[r] ELSE bottom(r)] IN
    /\ Cardinality(refs) <= MaxRefFields
    /\ InitRebuildHeap("HUM", sz, tops, refs)
    /\ rb = [IdleRb EXCEPT !.pc = "iterate", !.todo = << 0, 1 >>,
                           !.G1RebuildRemSetChunkSize = words * HeapWordSize,
                           !.size[0] = sz,
                           !.objArrays = IF array THEN {0} ELSE {},
                           !.bitmap = IF marked THEN {0} ELSE {},
                           !.end[0] = IF spanning THEN end_of(1) ELSE end_of(0),
                           !.humongous_start_region[1] = 0,
                           !.next_top_at_mark_start = tams,
                           !.top_at_rebuild_start[0] = tops[0],
                           !.top_at_rebuild_start[1] = IF tracked THEN tops[1] ELSE NoAddr,
                           !.next_marked_bytes =
                              [r \in Regions |-> IF r \in {0, 1} /\ marked
                                                 THEN (tams[r] - bottom(r)) * HeapWordSize
                                                 ELSE 0]]

InitRebuild == InitRebuildOld \/ InitRebuildHumongous

NextRebuild ==
  \/ RB_Entry
  \/ RB_Chunk
  \/ RB_Yield
  \/ RB_Return
  \/ RB_Done
  \/ RB_Abort
  \/ RB_EagerReclaim

\* The rebuild of the remembered sets by one worker of G1RebuildRemSetTask
SpecRebuild == InitRebuild /\ [][NextRebuild]_vars

\* ==================================== properties of the rebuild (SpecRebuild)
\* C19: when doHeapRegion has gone through a region to the end of its loop
\* and the region still has a top_at_rebuild_start, the total_marked_bytes
\* summed over the chunks equals the region's next_marked_bytes; in a
\* non-humongous region every marked object below TAMS has been counted with
\* exactly its size, whatever chunk boundaries it or an object array crosses,
\* and no other object has been counted.
C19_MarkedBytesEqualNextMarkedBytes ==
  \A r \in Regions :
    ( rb.result[r] = "completed" /\ rb.top_at_rebuild_start[r] # NoAddr )
      => /\ rb.total[r] = rb.next_marked_bytes[r]
         /\ rtype[r] = "OLD"
              => \A s \in Addrs :
                   ( rb.size[s] > 0 /\ s \div RegionWords = r )
                     => rb.counted[s] =
                          IF s < rb.next_top_at_mark_start[r] /\ s \in rb.bitmap
                          THEN rb.size[s] ELSE 0

\* An old region has been rebuilt in chunks shorter than two of its marked
\* objects below TAMS, an object array and a non-array object.
C19_StraddlingObjectsCounted ==
  /\ rb.result[0] = "completed" /\ rtype[0] = "OLD"
  /\ rb.top_at_rebuild_start[0] # NoAddr
  /\ rb.total[0] > 0
  /\ \E s \in rb.bitmap, t \in rb.bitmap :
       /\ s \in rb.objArrays /\ t \notin rb.objArrays
       /\ rb.size[s] * HeapWordSize > rb.G1RebuildRemSetChunkSize
       /\ rb.size[t] * HeapWordSize > rb.G1RebuildRemSetChunkSize

\* The rebuild has gone through the regions H0 = 0 and H1 = 1 of a live
\* humongous object without an abort of marking and without a reclaim.
HumongousRebuilt ==
  /\ rtype[0] = "HUM" /\ rb.humongous_start_region[1] = 0
  /\ rb.pc = "done" /\ ~rb.has_aborted
  /\ rb.top_at_rebuild_start[0] # NoAddr
  /\ ( 0 \in rb.bitmap \/ rb.top_at_rebuild_start[0] > rb.next_top_at_mark_start[0] )

C21_EarlyReturnsWriteNothing ==
  [][ \A t \in Refiners :
        ( rf[t].pc \in {"entry", "type", "hot", "top"} /\ rf'[t].pc # rf[t].pc )
          => LET c == rf[t].card_ptr
                 r == c \div CardsPerRegion IN
             /\ card' = card /\ rs' = rs
             /\ dcq' = dcq /\ into_cset_dcq' = into_cset_dcq
             /\ conc_refine_cards' = conc_refine_cards
             /\ rf[t].cleans = 0 /\ rf'[t].cleans = 0 /\ rf'[t].enq = 0
             /\ ( rf[t].pc = "entry" /\ card[c] # "DIRTY" ) => rf'[t].pc = "done"
             /\ ( rf[t].pc = "type" /\ rtype[r] \notin {"OLD", "HUM"} ) => rf'[t].pc = "done"
             /\ ( rf[t].pc = "hot" /\ Len(hcc') > Len(hcc) ) => rf'[t].pc = "done"
             /\ ( rf[t].pc = "top" /\ top[r] <= c * CardWords ) => rf'[t].pc = "done" ]_vars

\* A call has returned at the region type check for a stale card of a FREE
\* region, and the card is still DIRTY.
C21_StaleCardOfFreeRegionLeftDirty ==
  \E t \in Refiners :
    /\ rf[t].pc = "done" /\ rf[t].out = "nottype"
    /\ rtype[rf[t].card_ptr \div CardsPerRegion] = "FREE"
    /\ card[rf[t].card_ptr] = "DIRTY"

C23_NoRootMissed ==
  ( /\ phase = "pause" /\ \A w \in Workers : gcw[w].pc = "finished"
    /\ ps.all_dirty_logged )
    => \A r \in Regions : \A c \in Cards :
         ( /\ in_cset[r] /\ c \in rs[r]
           /\ ~in_cset[c \div CardsPerRegion]
           /\ scan_top[c \div CardsPerRegion] > c * CardWords )
           => ps.scans[c] > 0 \/ c \in ps.rdg_scans

\* The workers have returned, and a card of a collection-set region's
\* remembered set that scanCard has not scanned (it was DIRTY when scanRS came
\* to it) has been scanned by refine_card_during_gc.
C23_DirtyCardScannedByUpdateRS ==
  /\ phase = "pause" /\ \A w \in Workers : gcw[w].pc = "finished"
  /\ ps.all_dirty_logged
  /\ \E r \in Regions : \E c \in rs[r] :
       /\ in_cset[r] /\ ~in_cset[c \div CardsPerRegion]
       /\ scan_top[c \div CardsPerRegion] > c * CardWords
       /\ ps.scans[c] = 0 /\ c \in ps.rdg_scans

\* C24: no card is added to (or removed from) a remembered set while a worker
\* is iterating over that remembered set in doHeapRegion, also when another
\* worker of the pause is still in updateRS.
C24_NoAddWhileIterating ==
  [][ \A x \in Regions :
        rs'[x] # rs[x] => \A w \in Workers : ~ScanningRS(w, x) ]_vars

\* One worker is iterating over the remembered set of a collection-set region
\* while another, still in updateRS, has just returned from a
\* refine_card_during_gc that put its card into the remembered set of a region
\* outside the collection set.
C24_UpdateRSBesideScanRS ==
  \E w1 \in Workers, w2 \in Workers, r \in Regions, x \in Regions :
    /\ phase = "pause" /\ w1 # w2
    /\ in_cset[r] /\ ScanningRS(w1, r) /\ gcw[w1].pc = "dhr_card"
    /\ gcw[w2].pc = "rdg_ret" /\ gcw[w2].out = "processed"
    /\ ~in_cset[x] /\ gcw[w2].card_ptr \in rs[x]
    /\ \E a \in Addrs : a \div CardWords = gcw[w2].card_ptr /\ slot[a] = x

\* C25: during updateRS a card goes onto the into-collection-set queue exactly
\* when refine_card_during_gc returned true for it. It returns true only for a
\* card that was DIRTY, lies in an old or humongous region outside the
\* collection set with words below scan_top, was cleaned and scanned, and whose
\* scan met a reference into the collection set; every early return returns
\* false and nothing is enqueued for it.
C25_EnqueuedIffRefsIntoCSet ==
  [][ ( phase = "pause" /\ ~AllWorkersFinished ) =>
        /\ into_cset_dcq' # into_cset_dcq
             => \E w \in Workers :
                  /\ gcw[w].pc = "rdg_ret" /\ gcw'[w].pc = "updateRS" /\ gcw[w].has_refs
                  /\ into_cset_dcq' = [into_cset_dcq EXCEPT ![gcw[w].card_ptr] = @ + 1]
        /\ \A w \in Workers :
             /\ ( gcw[w].pc = "rdg_ret" /\ gcw'[w].pc = "updateRS" )
                  => ( into_cset_dcq'[gcw[w].card_ptr] = into_cset_dcq[gcw[w].card_ptr] + 1
                         <=> gcw[w].has_refs )
             /\ ( gcw[w].pc = "rdg_entry" /\ gcw'[w].pc = "rdg_ret" )
                  => ~gcw'[w].has_refs /\ card' = card /\ rs' = rs /\ ps' = ps
             /\ ( gcw[w].pc = "rdg_entry" /\ gcw'[w].pc = "rdg_clean" )
                  => LET c == gcw[w].card_ptr  r == RegionOfCard(c) IN
                     /\ card[c] = "DIRTY" /\ rtype[r] \in {"OLD", "HUM"}
                     /\ ~in_cset[r] /\ ScanRange(c) # {}
             /\ ( gcw[w].pc = "rdg_scan" /\ gcw'[w].pc = "rdg_ret" )
                  => LET c == gcw[w].card_ptr  r == RegionOfCard(c) IN
                     /\ rtype[r] \in {"OLD", "HUM"} /\ ~in_cset[r] /\ ScanRange(c) # {}
                     /\ gcw[w].sb \/ card[c] # "DIRTY"
                     /\ gcw'[w].has_refs
                          <=> \E a \in ScanRange(c) :
                                /\ slot[a] # NoRef /\ slot[a] # r /\ in_cset[slot[a]] ]_vars

\* Two cards have been through do_card_ptr in this pause: one was scanned,
\* held a reference into the collection set and is on the into-collection-set
\* queue; the other left refine_card_during_gc by an early return or without
\* such a reference and is not on it.
C25_OneEnqueuedOneNot ==
  \E w \in Workers, c \in Cards :
    /\ phase = "pause"
    /\ into_cset_dcq[c] = 1 /\ c \in ps.rdg_scans
    /\ gcw[w].pc = "updateRS" /\ gcw[w].card_ptr # NoCard /\ gcw[w].card_ptr # c
    /\ ~gcw[w].has_refs /\ into_cset_dcq[gcw[w].card_ptr] = 0

\* ------------------ the concurrent phase under fair scheduling
\* Every refinement thread keeps running (it takes a queued card when it is
\* idle and finishes the call it is in), a mutator that has dirtied a card
\* completes its barrier, and a humongous object being allocated is eventually
\* published, which makes its region parsable.
RefinerStep(t) ==
  \/ \E c \in Cards : Refine_Take(t, c)
  \/ refine_card_concurrently(t)

SpecFair ==
  /\ Spec
  /\ \A t \in Refiners : WF_vars(RefinerStep(t))
  /\ \A m \in Mutators : WF_vars(MutDirty(m) \/ MutEnqueue(m))
  /\ WF_vars(\E r \in Regions : HumAlloc_Publish(r))

\* C26: under fair scheduling, with the region eventually parsable, the
\* redirty-and-re-enqueue recovery ends: every card that a failed scan redirtied
\* and re-enqueued is later scanned by a call that took it after that, or left
\* by such a call through an early return or in the hot card cache.
C26_RedirtyRecoveryEnds ==
  (env.recovering # {}) ~> (env.recovering = {})

\* A card was redirtied and re-enqueued, and a call that took it afterwards has
\* scanned it.
C26_RedirtiedThenProcessed ==
  \E t \in Refiners :
    /\ rf[t].pc = "done" /\ rf[t].out = "processed" /\ rf[t].rec
    /\ rf[t].card_ptr \in env.recovering

\* C27: the chunked walk of an old region applies the closure exactly once to
\* every word of every live object in [bottom, TARS) and never to a dead one.
\* In each chunk it iterates whole the live objects that start in the chunk and
\* are not object arrays, or are object arrays that lie within the chunk, and
\* of a live object array that crosses the chunk's boundary only the words in
\* the chunk; an object that began in an earlier chunk is skipped unless it is
\* such an array.  An object below TAMS is live when it is marked, an object
\* in [TAMS, TARS) always.
C27_EveryLiveFieldOnce ==
  [][ LET r == rb.hr
          tams == rb.next_top_at_mark_start[r]
          tars == rb.top_at_rebuild_start[r]
          words == rb.G1RebuildRemSetChunkSize \div HeapWordSize
          lo == rb.cur
          hi == Min(rb.cur + words, tars)
          objs == { s \in Addrs : rb.size[s] > 0 /\ s \div RegionWords = r /\ s < tars }
          live(s) == s >= tams \/ s \in rb.bitmap
          whole(s) == s \notin rb.objArrays \/ ( lo <= s /\ s + rb.size[s] <= hi )
          visit(a) == \E s \in objs :
                        /\ live(s) /\ s <= a /\ a < s + rb.size[s]
                        /\ IF whole(s) THEN lo <= s /\ s < hi ELSE lo <= a /\ a < hi
      IN rtype[r] = "OLD" =>
           /\ ( rb.pc = "loop" /\ rb'.pc = "yield" )
                => \A a \in Addrs :
                     rb'.fields[a] = rb.fields[a] + IF visit(a) THEN 1 ELSE 0
           /\ ( rb.pc = "end" /\ rb'.result[r] = "completed" )
                => \A a \in Addrs :
                     rb.fields[a] =
                       IF \E s \in objs : live(s) /\ s <= a /\ a < s + rb.size[s]
                       THEN 1 ELSE 0 ]_vars

\* An old region has been walked to the end in chunks shorter than a live
\* object array and a live object that is no array, one of them unmarked in
\* [TAMS, TARS).
C27_StraddlersWalked ==
  /\ rb.result[0] = "completed" /\ rtype[0] = "OLD"
  /\ \E s \in Addrs, t \in Addrs :
       /\ rb.size[s] * HeapWordSize > rb.G1RebuildRemSetChunkSize
       /\ rb.size[t] * HeapWordSize > rb.G1RebuildRemSetChunkSize
       /\ s \in rb.objArrays /\ t \notin rb.objArrays
       /\ s + rb.size[s] <= rb.top_at_rebuild_start[0]
       /\ t + rb.size[t] <= rb.top_at_rebuild_start[0]
       /\ s \in rb.bitmap \/ s >= rb.next_top_at_mark_start[0]
       /\ t \in rb.bitmap \/ t >= rb.next_top_at_mark_start[0]
       /\ \E u \in {s, t} : u >= rb.next_top_at_mark_start[0] /\ u \notin rb.bitmap
       /\ \A a \in Addrs : ( s <= a /\ a < s + rb.size[s] ) => rb.fields[a] = 1
       /\ \A a \in Addrs : ( t <= a /\ a < t + rb.size[t] ) => rb.fields[a] = 1

\* ------------------------------ the rebuild with the worker kept running
\* The steps of the worker but the scan of a chunk
RebuildWorkerStep == RB_Entry \/ RB_Yield \/ RB_Return \/ RB_Done

\* The rebuild with its worker scheduled again and again.  RB_Chunk is enabled
\* exactly when rb.pc = "loop" and leaves that position, so that weak fairness
\* of it is []<>(rb.pc # "loop").
SpecRebuildFair ==
  /\ SpecRebuild
  /\ WF_vars(RebuildWorkerStep)
  /\ []<>(rb.pc # "loop")

\* C28: once has_aborted() is true the worker scans no further chunk and its
\* next step ends the iteration over the regions (doHeapRegion returns true);
\* when top_at_rebuild_start of the region reads NULL the worker scans no
\* further chunk of it and goes on to the other regions (doHeapRegion returns
\* false); a chunk is scanned only within [bottom, TARS) of the region; and the
\* worker always comes to an end.
C28_RebuildReactsAndTerminates ==
  /\ [][ LET hr == rb.hr
             tars == rb.top_at_rebuild_start[hr]
             scanned == rb'.fields # rb.fields \/ rb'.iterated # rb.iterated \/ rs' # rs
         IN /\ rb.has_aborted
                 => /\ ~scanned /\ rb'.cur = rb.cur
                    /\ rb'.pc # rb.pc => ( rb'.pc = "done" /\ rb'.todo = << >> )
            /\ ( rb.pc = "loop" /\ rb.cur < rb.end[hr] /\ tars = NoAddr )
                 => /\ ~scanned
                    /\ rb'.pc = "iterate" /\ rb'.todo = rb.todo
                    /\ rb'.result[hr] = "reclaimed"
            /\ scanned
                 => /\ rb.pc = "loop" /\ tars # NoAddr
                    /\ bottom(hr) <= rb.cur /\ rb.cur < tars
                    /\ \A a \in Addrs :
                         rb'.fields[a] > rb.fields[a] => ( bottom(hr) <= a /\ a < tars )
                    /\ rb'.iterated # rb.iterated
                         => LET it == rb'.iterated[Len(rb'.iterated)] IN
                            it[1] = hr /\ bottom(hr) <= it[2] /\ it[3] <= tars ]_vars
  /\ <>(rb.pc = "done")

\* The first region of a humongous object was reclaimed eagerly after a chunk
\* of it had been scanned, marking then aborted, and the iteration stopped at
\* the next region.
C28_ReclaimedThenAborted ==
  /\ rb.pc = "done" /\ rb.has_aborted
  /\ rb.result[0] = "reclaimed" /\ rb.result[1] = "aborted"
  /\ \E i \in 1 .. Len(rb.iterated) : rb.iterated[i][1] = 0
  /\ \A i \in 1 .. Len(rb.iterated) : rb.iterated[i][1] # 1

\* ============================ prepare_for_verify around an evacuation pause
\* updateRS(&into_cset_dcq, 0, pss): the drain is run as worker 0, the first worker
VerifyWorker == 1

\* prepare_for_verify returning with the hot card cache left disabled
PFV_Return_cache_off ==
  /\ phase = "verify"
  /\ gcw[VerifyWorker].pc = "updateRS"
  /\ dcq = NoEntries /\ hcc = << >>
  /\ card' = Drained(VerifyWorker)
  /\ into_cset_dcq' = NoEntries
  /\ use_cache' = FALSE
  /\ gcw' = [gcw EXCEPT ![VerifyWorker] = IdleGcw]
  /\ phase' = "conc"
  /\ UNCHANGED << rb, heapVars, slot, rs, dcq, hcc, conc_refine_cards, mut, rf, ps, env >>

\* prepare_for_verify, at a safepoint.  flush: G1HRRSFlushLogBuffersOnVerify &&
\* (VerifyBeforeGC || VerifyAfterGC) && (!full_collection() || G1VerifyRSetsDuringFullGC).
\* Up to the call of updateRS:
\*   _g1->set_refine_cte_cl_concurrency(false); dcqs.concatenate_logs();
\*   bool use_hot_card_cache = hot_card_cache->use_cache();
\*   hot_card_cache->set_use_cache(false);
prepare_for_verify(flush) ==
  /\ phase = "conc"
  /\ ThreadsQuiescent /\ AllocQuiescent
  /\ env.verifies < MaxVerifies
  /\ IF flush
       THEN /\ phase' = "verify"
            /\ use_cache' = FALSE
            /\ gcw' = [gcw EXCEPT ![VerifyWorker] = [IdleGcw EXCEPT !.pc = "updateRS"]]
            /\ env' = [env EXCEPT !.verifies = @ + 1,
                                   !.refine_cte_cl_concurrency = FALSE,
                                   !.use_hot_card_cache = use_cache]
       ELSE /\ UNCHANGED << phase, use_cache, gcw >>
            /\ env' = [env EXCEPT !.verifies = @ + 1]
  /\ UNCHANGED << rb, heapVars, slot, card, rs, dcq, into_cset_dcq, hcc,
                  conc_refine_cards, mut, rf, ps >>

\* updateRS has returned, no completed buffer being left:
\*   _g1->into_cset_dirty_card_queue_set().clear();
\*   hot_card_cache->set_use_cache(use_hot_card_cache);
\*   assert(JavaThread::dirty_card_queue_set().completed_buffers_num() == 0, ...)
PFV_Return ==
  /\ phase = "verify"
  /\ gcw[VerifyWorker].pc = "updateRS"
  /\ dcq = NoEntries /\ hcc = << >>
  /\ card' = Drained(VerifyWorker)
  /\ into_cset_dcq' = NoEntries
  /\ use_cache' = env.use_hot_card_cache
  /\ gcw' = [gcw EXCEPT ![VerifyWorker] = IdleGcw]
  /\ phase' = "conc"
  /\ UNCHANGED << rb, heapVars, slot, rs, dcq, hcc, conc_refine_cards, mut, rf, ps, env >>

OldCards == { c \in Cards : c \div CardsPerRegion # YoungRegion }

\* A safepoint before a collection: the last region is young, the others are
\* old; some cards of the old regions are DIRTY, each with a reference into the
\* young region, and logged in the dirty-card queue set or held by the hot card
\* cache; the hot card cache is in use or not.
InitVerify ==
  \E dirty \in SUBSET OldCards, uc \in BOOLEAN :
  \E cached \in SUBSET dirty :
    /\ Cardinality(cached) <= HotCacheSize
    /\ uc \/ cached = {}
    /\ phase = "conc"
    /\ rtype = [r \in Regions |-> IF r = YoungRegion THEN "YOUNG" ELSE "OLD"]
    /\ top = [r \in Regions |-> IF r = YoungRegion THEN end_of(r) ELSE end_of(r) - 1]
    /\ scan_top = top
    /\ published = [r \in Regions |-> TRUE]
    /\ in_cset = [r \in Regions |-> FALSE]
    /\ slot = [a \in Addrs |-> IF \E c \in dirty : a = addr_for(c) THEN YoungRegion ELSE NoRef]
    /\ card = [c \in Cards |-> IF c \in CardsOf(YoungRegion) THEN g1_young_card_val
                               ELSE IF c \in dirty THEN dirty_card_val
                               ELSE clean_card_val]
    /\ rs = [r \in Regions |-> {}]
    /\ dcq = [c \in Cards |-> IF c \in dirty \ cached THEN 1 ELSE 0]
    /\ into_cset_dcq = NoEntries
    /\ hcc = IF cached = {} THEN << >> ELSE << CHOOSE c \in cached : TRUE >>
    /\ use_cache = uc
    /\ conc_refine_cards = 0
    /\ mut = [m \in Mutators |-> IdleMut]
    /\ rf = [t \in Refiners |-> IdleRf]
    /\ gcw = [w \in Workers |-> IdleGcw]
    /\ ps = InitPs
    /\ rb = IdleRb
    /\ env = [stores |-> MaxStores, allocs |-> MaxAllocs, frees |-> MaxFrees,
              pauses |-> 0, G1RSetScanBlockSize |-> 1,
              recycled |-> {}, barrier_cards |-> dirty, raced |-> FALSE,
              cleaners |-> [c \in Cards |-> {}],
              returned |-> [c \in Cards |-> FALSE],
              evacuation_failed |-> FALSE, merged |-> {}, recovering |-> {},
              refine_cte_cl_concurrency |-> TRUE, verifies |-> 0,
              use_hot_card_cache |-> TRUE]

NextVerify ==
  \/ \E flush \in BOOLEAN : prepare_for_verify(flush)
  \/ PFV_Return
  \/ \E cs \in SUBSET Regions : StartPause(cs)
  \/ \E w \in Workers : oops_into_collection_set_do(w)
  \/ \E failed \in BOOLEAN : cleanup_after_oops_into_collection_set_do(failed)
  \/ EndPause

\* Verification before and after an evacuation pause
SpecVerify == InitVerify /\ [][NextVerify]_vars

\* C29: when prepare_for_verify flushes the log buffers, the hot card cache is
\* disabled from the start of the drain to its end and use_cache has on return
\* the value it had at the call; on return the dirty-card queue set has no
\* completed buffer and the into-collection-set queue set is empty.
C29_VerifyDrain ==
  [][ /\ ( phase = "conc" /\ phase' = "verify" )
           => ( ~use_cache' /\ env'.use_hot_card_cache = use_cache )
      /\ phase = "verify"
           => /\ ~use_cache
              /\ env'.use_hot_card_cache = env.use_hot_card_cache
              /\ \A w \in Workers :
                   gcw[w].pc = "rdg_entry" => \A i \in 1 .. Len(hcc') : hcc'[i] # gcw[w].card_ptr
      /\ ( phase = "verify" /\ phase' # "verify" )
           => /\ phase' = "conc"
              /\ use_cache' = env.use_hot_card_cache
              /\ dcq' = NoEntries
              /\ into_cset_dcq' = NoEntries ]_vars

\* prepare_for_verify has drained a DIRTY card and returned with the hot card
\* cache in use again.
C29_DrainedAndRestored ==
  /\ phase = "conc" /\ env.pauses = 0 /\ env.verifies > 0
  /\ conc_refine_cards > 0
  /\ use_cache /\ dcq = NoEntries /\ into_cset_dcq = NoEntries

\* C30: whenever no pause and no verify drain is in progress the refinement
\* closure is in its concurrent mode; in particular prepare_for_verify leaves
\* the mode as it found it.
C30_ConcurrentWhenIdle ==
  phase = "conc" => env.refine_cte_cl_concurrency

\* ======================= the card's value at the clean store (SpecHotCache)
\* C31 as stated: every card that refine_card_concurrently cleans was DIRTY
\* immediately before the clean store, the card passed in and a card evicted
\* from the hot card cache alike.
C31_DirtyBeforeClean ==
  \A t \in Refiners : rf[t].cleans > 0 => rf[t].dirty_at_clean

\* A moment of the concurrent phase with the mutators stopped: the first regions
\* are old, the last one is a humongous region whose allocation is published
\* or not yet.  Up to two cards are DIRTY, cards of the first region or the
\* first card of the humongous region; a card of the old region is logged once
\* or (after the re-dirty race) twice in the dirty-card queue set and possibly
\* held by the hot card cache as well, the card of the humongous region is
\* logged once.
InitHotCache ==
  \E dirty \in SUBSET ( CardsOf(0) \cup {index_for(bottom(NRegions - 1))} ), pub \in BOOLEAN :
  \E n \in [dirty -> 1 .. 2], cached \in SUBSET dirty :
    /\ dirty # {} /\ Cardinality(dirty) <= 2
    /\ Cardinality(cached) <= 1
    /\ \A c \in dirty \ OldCards : n[c] = 1 /\ c \notin cached
    /\ phase = "conc"
    /\ rtype = [r \in Regions |-> IF r = NRegions - 1 THEN "HUM" ELSE "OLD"]
    /\ top = [r \in Regions |-> end_of(r) - 1]
    /\ scan_top = top
    /\ published = [r \in Regions |-> r # NRegions - 1 \/ pub]
    /\ in_cset = [r \in Regions |-> FALSE]
    /\ slot = [a \in Addrs |-> IF \E c \in dirty : a = addr_for(c) /\ c \in OldCards
                                THEN (heap_region_containing(a) + 1) % (NRegions - 1)
                                ELSE NoRef]
    /\ card = [c \in Cards |-> IF c \in dirty THEN dirty_card_val ELSE clean_card_val]
    /\ rs = [r \in Regions |-> {}]
    /\ dcq = [c \in Cards |-> IF c \in dirty THEN n[c] ELSE 0]
    /\ into_cset_dcq = NoEntries
    /\ hcc = IF cached = {} THEN << >> ELSE << CHOOSE c \in cached : TRUE >>
    /\ use_cache = TRUE
    /\ conc_refine_cards = 0
    /\ mut = [m \in Mutators |-> IdleMut]
    /\ rf = [t \in Refiners |-> IdleRf]
    /\ gcw = [w \in Workers |-> IdleGcw]
    /\ ps = InitPs
    /\ rb = IdleRb
    /\ env = [stores |-> MaxStores, allocs |-> MaxAllocs, frees |-> MaxFrees,
              pauses |-> MaxPauses, G1RSetScanBlockSize |-> 1,
              recycled |-> {NRegions - 1}, barrier_cards |-> dirty, raced |-> FALSE,
              cleaners |-> [c \in Cards |-> {}],
              returned |-> [c \in Cards |-> FALSE],
              evacuation_failed |-> FALSE, merged |-> {}, recovering |-> {},
              refine_cte_cl_concurrency |-> TRUE, verifies |-> MaxVerifies,
              use_hot_card_cache |-> TRUE]

NextHotCache ==
  \/ \E t \in Refiners, c \in Cards : Refine_Take(t, c)
  \/ \E t \in Refiners : refine_card_concurrently(t)
  \/ \E r \in Regions : HumAlloc_Publish(r)

\* Refinement threads working off logged cards through the hot card cache
SpecHotCache == InitHotCache /\ [][NextHotCache]_vars

\* C31 (amended): a call that cleans the card it was passed has read it DIRTY
\* at its entry check, and a card enters the hot card cache only from a call
\* that has read it DIRTY; the card is not read again before the clean store,
\* neither the card passed in nor an evicted one.  When it is not DIRTY at the
\* clean store it is CLEAN: a clean store of refine_card_concurrently has got
\* there first.
C31_ReadDirtyBeforeClean ==
  [][ /\ \A t \in Refiners :
           ( rf[t].pc = "clean" /\ rf'[t].pc # "clean" )
             => /\ rf[t].card_ptr = rf[t].orig => rf[t].sawDirty
                /\ card[rf[t].card_ptr] # dirty_card_val
                     => card[rf[t].card_ptr] = clean_card_val
      /\ hcc' # hcc
           => \E t \in Refiners :
                /\ rf[t].pc = "hot" /\ rf[t].sawDirty
                /\ hcc'[Len(hcc')] = rf[t].card_ptr ]_vars

\* A call took a card evicted from the hot card cache in place of the card it
\* was passed, cleaned and scanned it and counted it as processed; the evicted
\* card was not DIRTY at the clean store.
C31_EvictedCleanedNotDirty ==
  \E t \in Refiners :
    /\ rf[t].pc = "done" /\ rf[t].out = "processed"
    /\ rf[t].card_ptr # rf[t].orig
    /\ rf[t].cleans = 1 /\ ~rf[t].dirty_at_clean

=============================================================================
